---- MODULE Spec2Model ----
(***************************************************************************)
(* The MutiCipher engine of drivers/clk/hisilicon/crg-hi3798.c (the        *)
(* hisi-advca-muc driver): channel slots, the dirty flag, the submit path  *)
(* (hica_muc_alg_encdec), the sweeper (hica_muc_thread/hica_muc_process),  *)
(* the interrupt handler (hica_muc_handle), the channel operations         *)
(* prepare/push/emit/unprepare and the descriptor builder, against a model *)
(* of the register file the code reads and writes.                         *)
(*                                                                         *)
(* Error codes are strings ("EBUSY", "EINPROGRESS", ...), "0" is success.  *)
(* A channel slot (chan->req) holds "NULL", ERR_PTR(-EINVAL) = "EINVAL",   *)
(* ERR_PTR(-EBUSY) = "EBUSY", or a request.                                *)
(***************************************************************************)
EXTENDS Integers, Sequences, FiniteSets, TLC

(* ------------------------------ bounds -------------------------------- *)
\* Channels modelled: channel 0 and NumChan-1 ring channels (the driver has
\* MUC_CHAN_NUM = 8).
NumChan == 3
\* chan->list_size, the slots of one descriptor ring (the driver uses
\* MUC_BUF_NUM = 15).
ListSize == 2
\* The small_request module parameter as configured (the default is 256).
small_request == 32

(* ------------------------- program constants -------------------------- *)
MUC_CHAN_PKG1 == 0
MUC_CHAN_PKGn_MIN == 1
MUC_CHAN_NUM == 8
MUC_IV_SIZE == 16
MUC_BLOCK_SIZE == 16
MUC_BUF_LEN_MAX == 1048560

Chans == 0 .. (NumChan - 1)
RingChans == MUC_CHAN_PKGn_MIN .. (NumChan - 1)
Reqs == {"r1", "r2"}

\* Interrupt status bits.
MUC_INT_CHANn_IN_BUF(n) == n
MUC_INT_CHANn_OUT_BUF(n) == MUC_CHAN_NUM + n
MUC_INT_CHAN0_DATA_DISPOSE == {MUC_CHAN_NUM}

IS_ERR_OR_NULL(p) == p \in {"NULL", "EINVAL", "EBUSY"}

\* The element of a one-element set: The({F(v) : v \in {e}}) is F(e) with e
\* worked out once.
The(S) == CHOOSE x \in S : TRUE

Min(a, b) == IF a <= b THEN a ELSE b
\* A length that is not limited to what is left of the request.
min3_norem(a, b, c) == Min(a, c)

min3(a, b, c) == Min(a, Min(b, c))
ALIGN(x, a) == ((x + a - 1) \div a) * a

(* ------------------------------ inputs -------------------------------- *)
\* The transform of a request: the control fields of its template
\* (hica_muc_tmpls) with the ivsize/chunksize hica_muc_alg_init copies and
\* the keysize of the last set_key (AES-128 for ECB, AES-256 for CBC).
Tfm(mode) ==
  [alg |-> "AES", mode |-> mode, keysize |-> IF mode = "ECB" THEN 16 ELSE 32,
   ivsize |-> MUC_IV_SIZE, chunksize |-> MUC_BLOCK_SIZE]

\* The requests the two callers submit: cryptlen, the scatterlist (node
\* lengths) that src and dst both use, and the transform.  The lengths are
\* below, at and above the threshold, and one is not a multiple of the
\* block size; the 48-byte requests need a second round on a ring.
Workloads ==
  { [r1 |-> [cryptlen |-> 48, sg |-> <<16, 16, 16>>, tfm |-> Tfm("ECB")],
     r2 |-> [cryptlen |-> 16, sg |-> <<16>>, tfm |-> Tfm("ECB")]],
    [r1 |-> [cryptlen |-> 48, sg |-> <<48>>, tfm |-> Tfm("CBC")],
     r2 |-> [cryptlen |-> 48, sg |-> <<48>>, tfm |-> Tfm("ECB")]],
    [r1 |-> [cryptlen |-> small_request, sg |-> <<16, small_request - 16>>,
             tfm |-> Tfm("CBC")],
     r2 |-> [cryptlen |-> 37, sg |-> <<16, 16, 5>>, tfm |-> Tfm("CBC")]],
    [r1 |-> [cryptlen |-> 16, sg |-> <<16>>, tfm |-> Tfm("ECB")],
     r2 |-> [cryptlen |-> small_request, sg |-> <<16, small_request - 16>>,
             tfm |-> Tfm("CBC")]] }

(* --------------------------- scatter cursor --------------------------- *)
\* struct sg_iter: sg is an index into the scatterlist, Len+1 is NULL.
sg_iter_init == [sg |-> 1, sg_offset |-> 0, offset |-> 0]

sg_iter_valid(sgl, iter) ==
  iter.sg <= Len(sgl) /\ iter.sg_offset < sgl[iter.sg]

sg_iter_len(sgl, iter) == sgl[iter.sg] - iter.sg_offset

RECURSIVE SgStart(_, _)
\* Bytes of the list before node k: sg_dma_address of node k, relative to
\* the start of the mapped buffer.
SgStart(sgl, k) == IF k <= 1 THEN 0 ELSE SgStart(sgl, k - 1) + sgl[k - 1]

sg_iter_dma_address(sgl, iter) == SgStart(sgl, iter.sg) + iter.sg_offset

RECURSIVE sg_iter_normalize(_, _)
sg_iter_normalize(sgl, iter) ==
  IF iter.sg <= Len(sgl) /\ iter.sg_offset >= sgl[iter.sg]
  THEN sg_iter_normalize(sgl, [iter EXCEPT !.sg_offset = @ - sgl[iter.sg],
                                           !.sg = @ + 1])
  ELSE iter

sg_iter_inc(sgl, iter, len) ==
  sg_iter_normalize(sgl, [iter EXCEPT !.sg_offset = @ + len,
                                      !.offset = @ + len])

(* --------------------------- descriptor ring -------------------------- *)
\* struct hica_muc_buf. where is "sg" (caller memory) or "pad" (the
\* channel's pad buffer) or "none" (never written); addr is the byte offset
\* into caller memory; pos is the request offset the descriptor was built
\* for (iter->offset), kept to tell what the hardware was given; iv_addr
\* is "iv" (the channel's IV scratch buffer) once the builder stored it in
\* the slot, and stays until the slot's memory is cleared.
NoBuf == [where |-> "none", addr |-> 0, len |-> 0, flags |-> {}, pos |-> 0,
          iv_addr |-> "none"]
EmptyList == [i \in 0 .. (ListSize - 1) |-> NoBuf]

RECURSIVE list_append_loop_noeol(_, _, _, _, _, _, _, _)
\* A builder that flags no descriptor end-of-list but the one that sets
\* the IV.
list_append_loop_noeol(list, i, iter, n, list_size, rq, is_dst, sgl) ==
  IF ~(iter.offset < rq.runlen /\ n < list_size)
  THEN [err |-> "0", n |-> n, list |-> list, iter |-> iter]
  ELSE
    LET req_remain == rq.runlen - iter.offset
        pad == iter.offset >= rq.cryptlen
    IN IF ~pad /\ ~sg_iter_valid(sgl, iter)
       THEN [err |-> "EFAULT", n |-> n, list |-> list, iter |-> iter]
       ELSE
         LET sg_remain == IF pad THEN 0 ELSE sg_iter_len(sgl, iter)
             addr == IF pad THEN 0 ELSE sg_iter_dma_address(sgl, iter)
             len0 == IF pad THEN req_remain
                     ELSE min3(sg_remain, req_remain, MUC_BUF_LEN_MAX)
             set_iv == /\ ~is_dst
                       /\ rq.tfm.mode # "ECB"
                       /\ iter.offset < rq.tfm.chunksize
                       /\ iter.offset + len0 >= rq.tfm.chunksize
             len == IF set_iv THEN rq.tfm.chunksize - iter.offset ELSE len0
             flags == IF set_iv THEN {"SET_IV", "END_OF_LIST"} ELSE {}
             buf == [where |-> IF pad THEN "pad" ELSE "sg", addr |-> addr,
                     len |-> len, flags |-> flags, pos |-> iter.offset,
                     iv_addr |-> IF set_iv THEN "iv" ELSE list[i].iv_addr]
             i2 == IF i + 1 >= list_size THEN 0 ELSE i + 1
         IN The({list_append_loop_noeol(l, i2, it, n + 1, list_size, rq,
                                        is_dst, sgl) :
                   l \in {[list EXCEPT ![i] = buf]},
                   it \in {sg_iter_inc(sgl, iter, len)}})

RECURSIVE list_append_loop_nosplit(_, _, _, _, _, _, _, _)
\* A builder that flags the descriptor reaching the first chunk border but
\* does not cut it there.
list_append_loop_nosplit(list, i, iter, n, list_size, rq, is_dst, sgl) ==
  IF ~(iter.offset < rq.runlen /\ n < list_size)
  THEN [err |-> "0", n |-> n, list |-> list, iter |-> iter]
  ELSE
    LET req_remain == rq.runlen - iter.offset
        pad == iter.offset >= rq.cryptlen
    IN IF ~pad /\ ~sg_iter_valid(sgl, iter)
       THEN [err |-> "EFAULT", n |-> n, list |-> list, iter |-> iter]
       ELSE
         LET sg_remain == IF pad THEN 0 ELSE sg_iter_len(sgl, iter)
             addr == IF pad THEN 0 ELSE sg_iter_dma_address(sgl, iter)
             len == IF pad THEN req_remain
                    ELSE min3(sg_remain, req_remain, MUC_BUF_LEN_MAX)
             flags0 == IF pad \/ len = req_remain THEN {"END_OF_LIST"} ELSE {}
             set_iv == /\ ~is_dst
                       /\ rq.tfm.mode # "ECB"
                       /\ iter.offset < rq.tfm.chunksize
                       /\ iter.offset + len >= rq.tfm.chunksize
             flags == IF set_iv THEN {"SET_IV", "END_OF_LIST"} ELSE flags0
             buf == [where |-> IF pad THEN "pad" ELSE "sg", addr |-> addr,
                     len |-> len, flags |-> flags, pos |-> iter.offset,
                     iv_addr |-> IF set_iv THEN "iv" ELSE list[i].iv_addr]
             i2 == IF i + 1 >= list_size THEN 0 ELSE i + 1
         IN The({list_append_loop_nosplit(l, i2, it, n + 1, list_size, rq,
                                          is_dst, sgl) :
                   l \in {[list EXCEPT ![i] = buf]},
                   it \in {sg_iter_inc(sgl, iter, len)}})

RECURSIVE list_append_loop(_, _, _, _, _, _, _, _)
list_append_loop(list, i, iter, n, list_size, rq, is_dst, sgl) ==
  IF ~(iter.offset < rq.runlen /\ n < list_size)
  THEN [err |-> "0", n |-> n, list |-> list, iter |-> iter]
  ELSE
    LET req_remain == rq.runlen - iter.offset
        pad == iter.offset >= rq.cryptlen
    IN IF ~pad /\ ~sg_iter_valid(sgl, iter)
       THEN [err |-> "EFAULT", n |-> n, list |-> list, iter |-> iter]
       ELSE
         LET sg_remain == IF pad THEN 0 ELSE sg_iter_len(sgl, iter)
             addr == IF pad THEN 0 ELSE sg_iter_dma_address(sgl, iter)
             len0 == IF pad THEN req_remain
                     ELSE min3(sg_remain, req_remain, MUC_BUF_LEN_MAX)
             flags0 == IF pad \/ len0 = req_remain THEN {"END_OF_LIST"} ELSE {}
             set_iv == /\ ~is_dst
                       /\ rq.tfm.mode # "ECB"
                       /\ iter.offset < rq.tfm.chunksize
                       /\ iter.offset + len0 >= rq.tfm.chunksize
             len == IF set_iv THEN rq.tfm.chunksize - iter.offset ELSE len0
             flags == IF set_iv THEN {"SET_IV", "END_OF_LIST"} ELSE flags0
             buf == [where |-> IF pad THEN "pad" ELSE "sg", addr |-> addr,
                     len |-> len, flags |-> flags, pos |-> iter.offset,
                     iv_addr |-> IF set_iv THEN "iv" ELSE list[i].iv_addr]
             i2 == IF i + 1 >= list_size THEN 0 ELSE i + 1
         IN The({list_append_loop(l, i2, it, n + 1, list_size, rq, is_dst, sgl) :
                   l \in {[list EXCEPT ![i] = buf]},
                   it \in {sg_iter_inc(sgl, iter, len)}})

\* A builder that reports a fault when the ring is full before the cursor
\* has reached the run length.
hica_muc_list_append_full_faults(list, i, iter, list_size, rq, is_dst) ==
  LET s == list_append_loop(list, i, iter, 0, list_size, rq, is_dst, rq.sg)
  IN IF s.err = "0" /\ s.iter.offset < rq.runlen
     THEN [s EXCEPT !.err = "EFAULT"]
     ELSE s

\* Returns [err, n, list, iter]: err "0" and the count n, or a fault.
hica_muc_list_append(list, i, iter, list_size, rq, is_dst) ==
  list_append_loop(list, i, iter, 0, list_size, rq, is_dst, rq.sg)

(* ------------------------------ registers ----------------------------- *)
\* A byte-array register bank (key, IV) is kept as the number of leading
\* bytes that may be nonzero.  hica_writel_seq of len secret bytes:
hica_writel_seq(bank, len) == IF len > bank THEN len ELSE bank
\* hica_setl_seq(0, ..., len): the first len bytes become zero.
hica_setl_seq(bank, len) == IF len >= bank THEN 0 ELSE bank

\* Data bytes are kept by what they are: 0 is a byte of no interest (zero,
\* padding or left over), p > 0 is the source byte of request offset p - 1
\* and -p is the output byte of request offset p - 1.
ZeroBytes(n) == [k \in 0 .. (n - 1) |-> 0]
ByteAt(buf, k) == IF k \in DOMAIN buf THEN buf[k] ELSE 0

\* The registers of one channel after reset.  CTRL keeps the fields the
\* hardware acts on; BUSY is MUC_CHAN0_BUSY of MUC_CHAN0_CFG (channel 0);
\* the ring registers are those of MUC_CHANn_*(n); DATA_IN and DATA_OUT are
\* MUC_CHAN0_DATA_IN0.. and MUC_CHAN0_DATA_OUT0.. (channel 0).
ResetReg ==
  [CTRL |-> [mode |-> "ECB", alg |-> "DES", iv_set |-> FALSE, from_mkl |-> FALSE],
   KEY |-> 0, IV_IN |-> 0, IV_OUT |-> 0, BUSY |-> FALSE,
   IN_BUF_CNT |-> 0, OUT_BUF_CNT |-> 0,
   SRC_LST_PTR |-> 0, DST_LST_PTR |-> 0, OUT_LEFT |-> 0,
   DATA_IN |-> ZeroBytes(MUC_BLOCK_SIZE), DATA_OUT |-> ZeroBytes(MUC_BLOCK_SIZE)]

\* hica_muc_chan_init: chan->inout_size = small_request.
inout_size == small_request

\* struct hica_muc_chan after hica_muc_chan_init (devm/dmam memory is
\* zeroed); req is set by the caller.  ivacc names the IV-input registers
\* ("IV_IN"), the IV-output registers ("IV_OUT") and the IV scratch buffer
\* ("iv") the driver has written since the channel's last prepare began;
\* emitted tells that hica_muc_chan_emit has gone to the start/submission
\* registers since the interrupt handler last cleared dirty; inout is
\* channel 0's flat input/output buffer.
InitChan(req) ==
  [req |-> req, dirty |-> FALSE, src |-> EmptyList, dst |-> EmptyList,
   iv |-> 0, src_emit_n |-> 0, dst_emit_n |-> 0, ivacc |-> {},
   emitted |-> FALSE, inout |-> ZeroBytes(inout_size)]

\* struct skcipher_request with its hica_muc_req_ctx.  iv_read tells that
\* req->iv was overwritten from the IV-output registers; dst_out is the set
\* of request offsets at which req->dst holds the output byte of that
\* offset, as far as channel 0 copied it there.
NewReq(in) ==
  [cryptlen |-> in.cryptlen, sg |-> in.sg, tfm |-> in.tfm,
   offset |-> 0, runlen |-> 0, eof |-> FALSE,
   src |-> sg_iter_init, dst |-> sg_iter_init, iv_read |-> FALSE,
   dst_out |-> {}]

\* A test that takes no request for short.
hica_muc_req_is_short_never(rq) == FALSE

hica_muc_req_is_short(rq) == rq.cryptlen <= small_request

(* ------------------------------- channel ------------------------------ *)
hica_muc_chan_ctrl(id, rg, rq, key_from_mkl) ==
  [rg EXCEPT !.CTRL = [mode |-> rq.tfm.mode, alg |-> rq.tfm.alg,
                       iv_set |-> (id = MUC_CHAN_PKG1 /\ rq.tfm.mode # "ECB"),
                       from_mkl |-> key_from_mkl]]

\* Reads the IV-output registers into req->iv unless the mode is ECB.
hica_muc_chan_iv_get(rq) ==
  IF rq.tfm.mode = "ECB" THEN rq ELSE [rq EXCEPT !.iv_read = TRUE]

\* Channel operations return [ret, ch, rg, rq]: the return value and the
\* channel, its registers and the request as the operation leaves them.
\* scatterwalk_map_and_copy(buf, req->src, start, n, 0): n source bytes
\* from request offset start on are copied to the head of buf.
copy_from_src(buf, start, n) ==
  [k \in DOMAIN buf |-> IF k < n THEN start + k + 1 ELSE buf[k]]

\* scatterwalk_map_and_copy(buf, req->dst, start, n, 1): the first n bytes
\* of buf are copied to the destination at request offset start on; the
\* destination then holds the output byte of an offset where buf held it.
copy_to_dst(dst_out, buf, start, n) ==
  (dst_out \ (start .. (start + n - 1)))
    \cup {start + k : k \in {j \in 0 .. (n - 1) : ByteAt(buf, j) = -(start + j + 1)}}

RECURSIVE BitAnd(_, _)
\* a & b
BitAnd(a, b) ==
  IF a = 0 \/ b = 0 THEN 0
  ELSE (a % 2) * (b % 2) + 2 * BitAnd(a \div 2, b \div 2)

\* hica_readl_seq(buf + at, regs, n) and hica_writel_seq(buf + at, regs, n)
\* for data: n bytes go from the registers into buf at index at, and from
\* buf at index at into the registers.
data_readl_seq(buf, at, regs, n) ==
  [k \in DOMAIN buf |-> IF k >= at /\ k < at + n THEN ByteAt(regs, k - at)
                        ELSE buf[k]]
data_writel_seq(buf, at, n) == [i \in 0 .. (n - 1) |-> ByteAt(buf, at + i)]

_hica_muc_chan_push_0(ch, rg, rq) ==
  IF rg.BUSY
  THEN [ret |-> "EBUSY", ch |-> ch, rg |-> rg, rq |-> rq]
  ELSE
    LET chunk == rq.tfm.chunksize
        offset_mod == BitAnd(rq.offset, inout_size - 1)
        \* get previous block
        got == IF rq.offset # 0
               THEN data_readl_seq(ch.inout,
                                   BitAnd(rq.offset - chunk, inout_size - 1),
                                   rg.DATA_OUT, chunk)
               ELSE ch.inout
        \* swap buf
        swap == rq.offset # 0 /\ offset_mod = 0
        dst_out == IF swap
                   THEN copy_to_dst(rq.dst_out, got, rq.offset - inout_size,
                                    inout_size)
                   ELSE rq.dst_out
        inout == IF swap
                 THEN copy_from_src(got, rq.offset,
                                    Min(rq.cryptlen - rq.offset, inout_size))
                 ELSE got
    IN IF rq.offset >= rq.cryptlen
       THEN [ret |-> "0", ch |-> [ch EXCEPT !.inout = got], rg |-> rg, rq |-> rq]
       ELSE [ret |-> "EINPROGRESS", ch |-> [ch EXCEPT !.inout = inout],
             rg |-> [(IF rq.tfm.mode # "ECB" /\ rq.offset = chunk
                      THEN [rg EXCEPT !.CTRL.iv_set = FALSE] ELSE rg)
                     EXCEPT !.DATA_IN = data_writel_seq(inout, offset_mod, chunk)],
             rq |-> [rq EXCEPT !.offset = @ + chunk, !.dst_out = dst_out]]

_hica_muc_chan_emit_0(ch, rg) ==
  [ch |-> ch, rg |-> [rg EXCEPT !.BUSY = TRUE]]

_hica_muc_chan_unprepare_0(ch, rg, rq, no_output) ==
  LET cryptlen_mod == BitAnd(rq.cryptlen, inout_size - 1)
  IN [ch |-> [(IF rq.tfm.mode # "ECB"
               THEN [ch EXCEPT !.ivacc = @ \cup {"IV_IN"}]
               ELSE ch)
              EXCEPT !.inout = ZeroBytes(inout_size)],
      rg |-> [(IF rq.tfm.mode # "ECB"
               THEN [rg EXCEPT !.IV_IN = hica_setl_seq(@, rq.tfm.ivsize)]
               ELSE rg)
              EXCEPT !.DATA_IN = ZeroBytes(MUC_BLOCK_SIZE)],
      rq |-> IF no_output THEN rq
             ELSE [hica_muc_chan_iv_get(rq) EXCEPT !.dst_out =
                     copy_to_dst(@, ch.inout, rq.cryptlen - cryptlen_mod,
                                 cryptlen_mod)]]

_hica_muc_chan_prepare_0(ch, rg, rq) ==
  [ret |-> "0",
   ch |-> [(IF rq.tfm.mode # "ECB"
            THEN [ch EXCEPT !.ivacc = @ \cup {"IV_IN"}]
            ELSE ch)
           EXCEPT !.inout = copy_from_src(@, 0, Min(rq.cryptlen, inout_size))],
   rg |-> IF rq.tfm.mode # "ECB"
          THEN [rg EXCEPT !.IV_IN = hica_writel_seq(@, rq.tfm.ivsize)]
          ELSE rg,
   rq |-> [rq EXCEPT !.offset = 0]]

\* The end-of-frame fixup of _hica_muc_chan_push_n: one dummy source and
\* one dummy destination descriptor pointing at the pad buffer.
\* (pos: it stands after the end of the request's data.)  The slot's
\* iv_addr is not written.
DummyBuf(rq, old) == [where |-> "pad", addr |-> 0, len |-> MUC_BLOCK_SIZE,
                      flags |-> {"END_OF_LIST"}, pos |-> rq.runlen,
                      iv_addr |-> old.iv_addr]

\* _hica_muc_chan_push_n, "set buffers" while the request is not at eof,
\* once hica_muc_list_append returned s for the source ring and d for the
\* destination ring.
push_n_set(ch, rg, rq, s, d) ==
  IF s.err # "0"
  THEN [ret |-> s.err, ch |-> [ch EXCEPT !.src = s.list], rg |-> rg,
        rq |-> [rq EXCEPT !.src = s.iter]]
  ELSE IF d.err # "0"
  THEN [ret |-> d.err, ch |-> [ch EXCEPT !.src = s.list, !.dst = d.list],
        rg |-> rg, rq |-> [rq EXCEPT !.src = s.iter, !.dst = d.iter]]
  ELSE [ret |-> "EINPROGRESS",
        ch |-> [ch EXCEPT !.src = s.list, !.dst = d.list,
                          !.src_emit_n = s.n, !.dst_emit_n = d.n],
        rg |-> rg, rq |-> [rq EXCEPT !.src = s.iter, !.dst = d.iter]]

\* A refill that does not look at the ring pointers it read.
push_n_fill_unchecked(ch, rg, rq, src_todo, dst_todo, dst_n) ==
  [ret |-> "EINPROGRESS",
   ch |-> [ch EXCEPT !.src_emit_n = IF src_todo THEN 1 ELSE 0,
                     !.dst_emit_n = IF dst_todo THEN 1 ELSE 0],
   rg |-> rg, rq |-> rq]

\* The second half of _hica_muc_chan_push_n, from "read ring buffer status":
\* the ring pointers are read and checked, then the descriptors are written.
push_n_fill(ch, rg, rq, src_todo, dst_todo, dst_n) ==
  LET src_i == rg.SRC_LST_PTR
      dst_i == rg.DST_LST_PTR
  IN IF src_todo /\ src_i >= ListSize
     THEN [ret |-> "EIO", ch |-> ch, rg |-> rg, rq |-> rq]
     ELSE IF dst_todo /\ dst_i >= ListSize
     THEN [ret |-> "EIO", ch |-> ch, rg |-> rg, rq |-> rq]
     ELSE IF ~rq.eof
     THEN The({push_n_set(ch, rg, rq, s, d) :
                 s \in {IF src_todo
                        THEN hica_muc_list_append(ch.src, src_i, rq.src, ListSize,
                                                  rq, FALSE)
                        ELSE [err |-> "0", n |-> 0, list |-> ch.src, iter |-> rq.src]},
                 d \in {IF dst_todo
                        THEN hica_muc_list_append(ch.dst, dst_i, rq.dst, ListSize,
                                                  rq, TRUE)
                        ELSE [err |-> "0", n |-> 0, list |-> ch.dst, iter |-> rq.dst]}})
     ELSE
       LET dst_j == IF dst_i + dst_n >= ListSize
                    THEN dst_i + dst_n - ListSize ELSE dst_i + dst_n
       IN [ret |-> "EINPROGRESS",
           ch |-> [ch EXCEPT !.src[src_i] = DummyBuf(rq, @),
                             !.dst[dst_j] = DummyBuf(rq, @),
                             !.src_emit_n = 1, !.dst_emit_n = 1],
           rg |-> rg, rq |-> rq]

\* A push without the end-of-frame fixup: it never issues the dummy pair.
_hica_muc_chan_push_n_nofixup(ch, rg, rq) ==
  LET src_eof == rq.src.offset >= rq.runlen
      src_n == rg.IN_BUF_CNT
      dst_eof == rq.dst.offset >= rq.runlen
      dst_n == rg.OUT_BUF_CNT
  IN IF src_n = 0 /\ dst_n = 0 /\ rq.eof
     THEN [ret |-> "0", ch |-> ch, rg |-> rg, rq |-> rq]
     ELSE IF (src_n # 0 /\ dst_n # 0) \/ rq.eof
     THEN [ret |-> "EBUSY", ch |-> ch, rg |-> rg, rq |-> rq]
     ELSE IF src_eof /\ dst_eof /\ src_n = 0
     THEN [ret |-> IF dst_n = 0 THEN "0" ELSE "EBUSY", ch |-> ch, rg |-> rg,
           rq |-> hica_muc_chan_iv_get([rq EXCEPT !.eof = TRUE])]
     ELSE push_n_fill(ch, rg, rq, src_n = 0 /\ ~src_eof,
                      dst_n = 0 /\ ~dst_eof, dst_n)

\* A push that does not refuse a request that is at eof already.
_hica_muc_chan_push_n_again(ch, rg, rq) ==
  LET src_eof == rq.src.offset >= rq.runlen
      src_n == rg.IN_BUF_CNT
      dst_eof == rq.dst.offset >= rq.runlen
      dst_n == rg.OUT_BUF_CNT
  IN IF src_n = 0 /\ dst_n = 0 /\ rq.eof
     THEN [ret |-> "0", ch |-> ch, rg |-> rg, rq |-> rq]
     ELSE IF src_n # 0 /\ dst_n # 0
     THEN [ret |-> "EBUSY", ch |-> ch, rg |-> rg, rq |-> rq]
     ELSE IF src_eof /\ dst_eof /\ src_n = 0
     THEN
       LET rq1 == hica_muc_chan_iv_get([rq EXCEPT !.eof = TRUE])
       IN IF dst_n = 0
          THEN [ret |-> "0", ch |-> ch, rg |-> rg, rq |-> rq1]
          ELSE IF rg.OUT_LEFT = 0
          THEN [ret |-> "EBUSY", ch |-> ch, rg |-> rg, rq |-> rq1]
          ELSE push_n_fill(ch, rg, rq1, TRUE, TRUE, dst_n)
     ELSE push_n_fill(ch, rg, rq, src_n = 0 /\ ~src_eof,
                      dst_n = 0 /\ ~dst_eof, dst_n)

\* A push that does not refuse while both rings have outstanding
\* descriptors.
_hica_muc_chan_push_n_nobusy(ch, rg, rq) ==
  LET src_eof == rq.src.offset >= rq.runlen
      src_n == rg.IN_BUF_CNT
      dst_eof == rq.dst.offset >= rq.runlen
      dst_n == rg.OUT_BUF_CNT
  IN IF src_n = 0 /\ dst_n = 0 /\ rq.eof
     THEN [ret |-> "0", ch |-> ch, rg |-> rg, rq |-> rq]
     ELSE IF rq.eof
     THEN [ret |-> "EBUSY", ch |-> ch, rg |-> rg, rq |-> rq]
     ELSE IF src_eof /\ dst_eof /\ src_n = 0
     THEN
       LET rq1 == hica_muc_chan_iv_get([rq EXCEPT !.eof = TRUE])
       IN IF dst_n = 0
          THEN [ret |-> "0", ch |-> ch, rg |-> rg, rq |-> rq1]
          ELSE IF rg.OUT_LEFT = 0
          THEN [ret |-> "EBUSY", ch |-> ch, rg |-> rg, rq |-> rq1]
          ELSE push_n_fill(ch, rg, rq1, TRUE, TRUE, dst_n)
     ELSE push_n_fill(ch, rg, rq, src_n = 0 /\ ~src_eof,
                      dst_n = 0 /\ ~dst_eof, dst_n)

_hica_muc_chan_push_n(ch, rg, rq) ==
  LET src_eof == rq.src.offset >= rq.runlen
      src_n == rg.IN_BUF_CNT
      dst_eof == rq.dst.offset >= rq.runlen
      dst_n == rg.OUT_BUF_CNT
  IN IF src_n = 0 /\ dst_n = 0 /\ rq.eof
     THEN [ret |-> "0", ch |-> ch, rg |-> rg, rq |-> rq]
     ELSE IF (src_n # 0 /\ dst_n # 0) \/ rq.eof
     THEN [ret |-> "EBUSY", ch |-> ch, rg |-> rg, rq |-> rq]
     ELSE IF src_eof /\ dst_eof /\ src_n = 0
     THEN
       \* the EOF quirk: eof is set and the IV is fetched first
       LET rq1 == hica_muc_chan_iv_get([rq EXCEPT !.eof = TRUE])
       IN IF dst_n = 0
          THEN [ret |-> "0", ch |-> ch, rg |-> rg, rq |-> rq1]
          ELSE IF rg.OUT_LEFT = 0
          THEN [ret |-> "EBUSY", ch |-> ch, rg |-> rg, rq |-> rq1]
          ELSE push_n_fill(ch, rg, rq1, TRUE, TRUE, dst_n)
     ELSE push_n_fill(ch, rg, rq, src_n = 0 /\ ~src_eof,
                      dst_n = 0 /\ ~dst_eof, dst_n)

\* An emit that forgets the counts without writing them to the engine.
_hica_muc_chan_emit_n_nowrite(ch, rg) ==
  [ch |-> [ch EXCEPT !.src_emit_n = 0, !.dst_emit_n = 0], rg |-> rg]

\* Writing a count to a BUF_CNT register adds it to the available count.
_hica_muc_chan_emit_n(ch, rg) ==
  [ch |-> [ch EXCEPT !.src_emit_n = 0, !.dst_emit_n = 0],
   rg |-> [rg EXCEPT !.OUT_BUF_CNT = @ + ch.dst_emit_n,
                     !.IN_BUF_CNT = @ + ch.src_emit_n]]

\* An unprepare that erases the IV scratch buffer in every mode.
_hica_muc_chan_unprepare_n_erases(ch, rg, rq, no_output) ==
  [ch |-> [ch EXCEPT !.iv = 0, !.ivacc = @ \cup {"iv"}], rg |-> rg, rq |-> rq]

_hica_muc_chan_unprepare_n(ch, rg, rq, no_output) ==
  [ch |-> IF rq.tfm.mode # "ECB"
          THEN [ch EXCEPT !.iv = 0, !.ivacc = @ \cup {"iv"}]
          ELSE ch,
   rg |-> rg, rq |-> rq]

\* sg_nents_for_len fails on a scatterlist shorter than cryptlen; map_ok
\* tells whether dma_map_sg succeeds.  When it does, the rings are set
\* up, a stale OUT_BUF_CNT is flushed (IN_LEFT too) and the IV is copied
\* to the scratch buffer.
_hica_muc_chan_prepare_n(ch, rg, rq, map_ok) ==
  IF SgStart(rq.sg, Len(rq.sg) + 1) < rq.cryptlen
  THEN [ret |-> "EINVAL", ch |-> ch, rg |-> rg, rq |-> rq]
  ELSE IF ~map_ok
  THEN [ret |-> "EIO", ch |-> ch, rg |-> rg, rq |-> rq]
  ELSE [ret |-> "0",
        ch |-> IF rq.tfm.mode # "ECB"
               THEN [ch EXCEPT !.iv = MUC_IV_SIZE, !.ivacc = @ \cup {"iv"}]
               ELSE ch,
        rg |-> [rg EXCEPT !.OUT_BUF_CNT = 0],
        rq |-> [rq EXCEPT !.runlen = ALIGN(rq.cryptlen, rq.tfm.chunksize),
                          !.eof = FALSE,
                          !.src = sg_iter_init, !.dst = sg_iter_init]]

\* A push that marks the channel dirty whatever it returned.
hica_muc_chan_push_mark_always(r) == [r EXCEPT !.ch.dirty = TRUE]

\* hica_muc_chan_push after the channel-specific push returned r: an
\* in-progress push marks the channel dirty.
hica_muc_chan_push_mark(r) ==
  IF r.ret = "EINPROGRESS" THEN [r EXCEPT !.ch.dirty = TRUE] ELSE r

\* A push that does not look at the dirty flag.
hica_muc_chan_push_nodirty(id, ch, rg, rq) ==
  The({hica_muc_chan_push_mark(r) :
         r \in {IF id = MUC_CHAN_PKG1
                THEN _hica_muc_chan_push_0(ch, rg, rq)
                ELSE _hica_muc_chan_push_n(ch, rg, rq)}})

hica_muc_chan_push(id, ch, rg, rq) ==
  IF ch.dirty
  THEN [ret |-> "EBUSY", ch |-> ch, rg |-> rg, rq |-> rq]
  ELSE The({hica_muc_chan_push_mark(r) :
              r \in {IF id = MUC_CHAN_PKG1
                     THEN _hica_muc_chan_push_0(ch, rg, rq)
                     ELSE _hica_muc_chan_push_n(ch, rg, rq)}})

hica_muc_chan_emit(id, ch, rg) ==
  IF ~ch.dirty
  THEN [ch |-> ch, rg |-> rg]
  ELSE IF id = MUC_CHAN_PKG1
  THEN _hica_muc_chan_emit_0([ch EXCEPT !.emitted = TRUE], rg)
  ELSE _hica_muc_chan_emit_n([ch EXCEPT !.emitted = TRUE], rg)

\* An unprepare that leaves the key registers as they are.
hica_muc_chan_unprepare_keeps_key(id, ch, rg, rq, no_output) ==
  LET u == IF id = MUC_CHAN_PKG1
           THEN _hica_muc_chan_unprepare_0(ch, rg, rq, no_output)
           ELSE _hica_muc_chan_unprepare_n(ch, rg, rq, no_output)
  IN IF rq.tfm.mode # "ECB"
     THEN [u EXCEPT !.rg.IV_OUT = hica_setl_seq(@, rq.tfm.ivsize),
                    !.ch.ivacc = @ \cup {"IV_OUT"}]
     ELSE u

hica_muc_chan_unprepare(id, ch, rg, rq, no_output) ==
  LET rg1 == IF rq.tfm.keysize # 0
             THEN [rg EXCEPT !.KEY = hica_setl_seq(@, rq.tfm.keysize)]
             ELSE rg
      u == IF id = MUC_CHAN_PKG1
           THEN _hica_muc_chan_unprepare_0(ch, rg1, rq, no_output)
           ELSE _hica_muc_chan_unprepare_n(ch, rg1, rq, no_output)
  IN IF rq.tfm.mode # "ECB"
     THEN [u EXCEPT !.rg.IV_OUT = hica_setl_seq(@, rq.tfm.ivsize),
                    !.ch.ivacc = @ \cup {"IV_OUT"}]
     ELSE u

\* A prepare that writes the control word and the key before it maps the
\* request.
hica_muc_chan_prepare_ctrl_first(id, ch, rg, rq, map_ok) ==
  LET ch0 == [ch EXCEPT !.ivacc = {}]
      rg0 == hica_muc_chan_ctrl(id, rg, rq, rq.tfm.keysize = 0)
      rg1 == IF rq.tfm.keysize # 0
             THEN [rg0 EXCEPT !.KEY = hica_writel_seq(@, rq.tfm.keysize)]
             ELSE rg0
  IN IF id = MUC_CHAN_PKG1 THEN _hica_muc_chan_prepare_0(ch0, rg1, rq)
     ELSE _hica_muc_chan_prepare_n(ch0, rg1, rq, map_ok)

hica_muc_chan_prepare(id, ch, rg, rq, map_ok) ==
  LET ch0 == [ch EXCEPT !.ivacc = {}]
      p == IF id = MUC_CHAN_PKG1 THEN _hica_muc_chan_prepare_0(ch0, rg, rq)
           ELSE _hica_muc_chan_prepare_n(ch0, rg, rq, map_ok)
  IN IF p.ret # "0"
     THEN p
     ELSE LET rg1 == hica_muc_chan_ctrl(id, p.rg, rq, rq.tfm.keysize = 0)
          IN [p EXCEPT !.rg = IF rq.tfm.keysize # 0
                              THEN [rg1 EXCEPT !.KEY = hica_writel_seq(@, rq.tfm.keysize)]
                              ELSE rg1]

(* -------------------------------- state ------------------------------- *)
VARIABLES
  chan,    \* priv->chans[id]: struct hica_muc_chan
  reg,     \* the registers of each channel
  hw,      \* what the engine has consumed and produced on each channel
  intst,   \* MUC_INT_STATUS: the set of asserted bits
  no_dma,  \* priv->no_dma
  cond,    \* priv->cond is completed
  rctx,    \* each request with its hica_muc_req_ctx
  call,    \* each request's call of hica_muc_alg_encdec
  cb,      \* each request's completion callback: times invoked and status
  sw,      \* the sweeper thread's position in hica_muc_thread/_process
  irq,     \* the interrupt handler's position in hica_muc_handle
  desync,  \* the rings whose pointer register no longer matches the driver
  dma,     \* the DMA controller: its channels, interrupt status and handler
  dev      \* the platform device: probe inputs and what probe/remove set up

vars ==
  <<chan, reg, hw, intst, no_dma, cond, rctx, call, cb, sw, irq, desync, dma,
    dev>>

(* ------------------- the DMA controller: its state -------------------- *)
\* The channels of the controller that are modelled (DMAC_CHAN_NUM is 4).
NumDmaChan == 2
DmaChans == 0 .. (NumDmaChan - 1)

\* The descriptors a client prepares on one channel, numbered from 1.
MaxDesc == 2

\* chan->desc when no descriptor is on the hardware.
NoDesc == 0

\* struct histb_dma_chan with its virt_dma_chan and the bits of its
\* DMAC_CHAN_CFG register: lock is vchan.lock ("free" or the function that
\* holds it), submitted and issued are vchan.desc_submitted and
\* vchan.desc_issued, completed and terminated collect the descriptors
\* passed to vchan_cookie_complete and vchan_terminate_vdesc, n counts the
\* descriptors prepared, logged records that the handler reported a
\* transfer error of the channel, ret is what the last
\* histb_dma_terminate_all returned.
DmaChanInit ==
  [lock |-> "free", desc |-> NoDesc, submitted |-> <<>>, issued |-> <<>>,
   completed |-> {}, terminated |-> {}, n |-> 0, logged |-> FALSE,
   EN |-> FALSE, ACTIVE |-> FALSE, HALT |-> FALSE, ret |-> "none"]

\* struct histb_dma_priv: the channels, DMAC_INT_TC_STATUS and
\* DMAC_INT_ERR_STATUS as sets of channel bits, the position of
\* histb_dma_handle with the values it read, and whether the handler has
\* dereferenced a NULL chan->desc.
DmaInit ==
  [chans |-> [c \in DmaChans |-> DmaChanInit],
   tc |-> {}, err |-> {},
   h |-> [pc |-> "idle", tc |-> {}, err |-> {}, i |-> 0],
   oops |-> FALSE]

\* The engine's own progress on one channel: fed/drained are the bytes
\* read from source and written to destination descriptors; inpos (outpos)
\* is how far the request's bytes were read (written) in order, and inbad
\* (outbad) tells that some descriptor did not continue that order.
ResetHw == [fed |-> 0, drained |-> 0, inpos |-> 0, inbad |-> FALSE,
            outpos |-> 0, outbad |-> FALSE]

\* The rings of each channel whose pointer register came to differ from the
\* index the driver's own staging leads to.
NoDesync == [id \in Chans |-> {}]

IdleCall == [pc |-> "idle", id |-> 0, ret |-> "none", tried |-> {}]
\* The channel masks hica_muc_probe ends with here: all channels usable,
\* the last one unusable, and only channel 0 usable (the others disabled by
\* the disable parameter).
ChanMasks == {Chans, Chans \ {NumChan - 1}, {MUC_CHAN_PKG1}}

\* hica_muc_probe, "setup channels": an unusable channel holds
\* ERR_PTR(-EINVAL), a usable one is initialised with req = NULL.
ProbeChans(chan_mask) ==
  [id \in Chans |-> IF id \in chan_mask THEN InitChan("NULL") ELSE InitChan("EINVAL")]

\* A probe that does not look at the disable parameter.
hica_muc_probe_test_all(int_ok, disable) ==
  [ret |-> IF int_ok \cap Chans = {} THEN "ENODEV" ELSE "0",
   chan_mask |-> int_ok \cap Chans,
   no_dma |-> (int_ok \cap Chans = {MUC_CHAN_PKG1})]

\* hica_muc_probe, "test channel availability": int_ok are the channels
\* whose output interrupt bit reads back set from MUC_INT_CFG, disable the
\* entries of the disable parameter (disable_mask).  Returns [ret,
\* chan_mask, no_dma]: -ENODEV when no channel is left, -EINVAL when only
\* channel 0 is left and disable_mask is zero.
hica_muc_probe_test(int_ok, disable) ==
  LET chan_mask == {id \in Chans : id \in int_ok /\ id \notin disable}
      nodma == (chan_mask = {MUC_CHAN_PKG1})
  IN [ret |-> IF chan_mask = {} THEN "ENODEV"
              ELSE IF nodma /\ disable = {} THEN "EINVAL"
              ELSE "0",
      chan_mask |-> chan_mask, no_dma |-> nodma]

\* The device before hica_muc_probe: clocks off, no sweeper thread, no
\* algorithm registered.  pc is the position of probe/remove, ret what
\* probe returned, extra_check the module parameter and held the channels
\* probe still holds busy (its chan_mask after "pressure on one channel").
Unbound(int_ok, disable) ==
  [pc |-> "unbound", int_ok |-> int_ok, disable |-> disable, ret |-> "none",
   algs |-> FALSE, task |-> "none", clk |-> FALSE, rst |-> TRUE,
   extra_check |-> FALSE, held |-> {}]

\* The device after hica_muc_probe returned ret: on success the clocks
\* run, reset is deasserted, the sweeper thread runs and the algorithms
\* are registered; on failure (err_clk, err_rst) the clocks are off again
\* and reset is asserted.
Probed(d, ret) ==
  IF ret = "0"
  THEN [d EXCEPT !.pc = "bound", !.ret = ret, !.algs = TRUE,
                 !.task = "running", !.clk = TRUE, !.rst = FALSE]
  ELSE [d EXCEPT !.pc = "failed", !.ret = ret]

\* The state after hica_muc_probe, with the requests the callers hold: all
\* channels pass the interrupt test and the disable parameter names the
\* channels outside chan_mask.
InitWith(masks, works) ==
  /\ \E chan_mask \in masks :
     \E t \in {hica_muc_probe_test(Chans, Chans \ chan_mask)} :
       /\ t.ret = "0"
       /\ chan = ProbeChans(t.chan_mask)
       /\ no_dma = t.no_dma
       /\ dev = Probed(Unbound(Chans, Chans \ chan_mask), t.ret)
  /\ \E w \in works : rctx = [r \in Reqs |-> NewReq(w[r])]
  /\ reg = [id \in Chans |-> ResetReg]
  /\ hw = [id \in Chans |-> ResetHw]
  /\ intst = {}
  /\ cond = FALSE
  /\ call = [r \in Reqs |-> IdleCall]
  /\ cb = [r \in Reqs |-> [n |-> 0, status |-> "none"]]
  /\ sw = [pc |-> "wait", id |-> 0, req |-> "NULL", ret |-> "none"]
  /\ irq = [pc |-> "idle", val |-> {}]
  /\ desync = NoDesync
  /\ dma = DmaInit

Init == InitWith(ChanMasks, Workloads)

(* ----------------------------- submit path ---------------------------- *)
\* A swap that does not compare: it claims the slot whatever it holds.
try_cmpxchg_acquire_blind(slot, old, new) == [ok |-> TRUE, val |-> new]

\* A compare-and-swap that stores the new value even when it fails.
try_cmpxchg_acquire_stores(slot, old, new) == [ok |-> slot = old, val |-> new]

\* A compare-and-swap that also takes a slot holding ERR_PTR(-EINVAL).
try_cmpxchg_acquire_einval(slot, old, new) ==
  IF slot \in {old, "EINVAL"} THEN [ok |-> TRUE, val |-> new]
  ELSE [ok |-> FALSE, val |-> slot]

\* A compare-and-swap that also takes a slot holding a request.
try_cmpxchg_acquire_held(slot, old, new) ==
  IF slot = old \/ slot \in Reqs THEN [ok |-> TRUE, val |-> new]
  ELSE [ok |-> FALSE, val |-> slot]

\* try_cmpxchg_acquire(&chan->req, &old, new): [ok, val], val the slot after.
try_cmpxchg_acquire(slot, old, new) ==
  IF slot = old THEN [ok |-> TRUE, val |-> new] ELSE [ok |-> FALSE, val |-> slot]

\* A scan that always starts at channel 0.
FirstChan_zero(rq) == MUC_CHAN_PKG1

\* The first channel hica_muc_alg_encdec tries.
FirstChan(rq) ==
  IF no_dma \/ hica_muc_req_is_short(rq) THEN MUC_CHAN_PKG1 ELSE MUC_CHAN_PKGn_MIN

\* A caller enters hica_muc_alg_encrypt/_decrypt with a request.
Submit(r) ==
  /\ dev.algs
  /\ call[r].pc = "idle"
  /\ call' = [call EXCEPT ![r] = [pc |-> "scan", id |-> FirstChan(rctx[r]),
                                  ret |-> "none", tried |-> {}]]
  /\ UNCHANGED <<chan, reg, hw, intst, no_dma, cond, rctx, cb, sw, irq, desync, dma, dev>>

\* A scan that goes back to channel 0 when the last channel is not idle.
hica_muc_alg_encdec_scan_wraps(r) ==
  /\ call[r].pc = "scan"
  /\ LET id == call[r].id
         x == try_cmpxchg_acquire(chan[id].req, "NULL", "EBUSY")
     IN /\ chan' = [chan EXCEPT ![id].req = x.val]
        /\ call' = [call EXCEPT ![r] =
             IF x.ok THEN [@ EXCEPT !.pc = "acquired"]
             ELSE IF id + 1 < NumChan
             THEN [@ EXCEPT !.id = id + 1, !.tried = @ \cup {id}]
             ELSE IF MUC_CHAN_PKG1 \notin call[r].tried
             THEN [@ EXCEPT !.id = MUC_CHAN_PKG1, !.tried = @ \cup {id}]
             ELSE [@ EXCEPT !.pc = "done", !.ret = "EBUSY", !.tried = @ \cup {id}]]
  /\ UNCHANGED <<reg, hw, intst, no_dma, cond, rctx, cb, sw, irq, desync, dma, dev>>

\* hica_muc_alg_encdec, one round of "get an idle channel": the
\* compare-and-swap on channel id, then the next channel or -EBUSY.
hica_muc_alg_encdec_scan(r) ==
  /\ call[r].pc = "scan"
  /\ LET id == call[r].id
         x == try_cmpxchg_acquire(chan[id].req, "NULL", "EBUSY")
     IN /\ chan' = [chan EXCEPT ![id].req = x.val]
        /\ call' = [call EXCEPT ![r] =
             IF x.ok THEN [@ EXCEPT !.pc = "acquired"]
             ELSE IF id + 1 < NumChan
             THEN [@ EXCEPT !.id = id + 1, !.tried = @ \cup {id}]
             ELSE [@ EXCEPT !.pc = "done", !.ret = "EBUSY", !.tried = @ \cup {id}]]
  /\ UNCHANGED <<reg, hw, intst, no_dma, cond, rctx, cb, sw, irq, desync, dma, dev>>

\* A submission that hands a failure of prepare to the completion callback
\* as well.
hica_muc_alg_encdec_acquired_calls(r, map_ok) ==
  /\ call[r].pc = "acquired"
  /\ \E id \in {call[r].id} :
     \E p \in {hica_muc_chan_prepare(id, chan[id], reg[id], rctx[r], map_ok)} :
        /\ reg' = [reg EXCEPT ![id] = p.rg]
        /\ rctx' = [rctx EXCEPT ![r] = p.rq]
        /\ IF p.ret # "0"
           THEN /\ chan' = [chan EXCEPT ![id] = [p.ch EXCEPT !.req = "NULL"]]
                /\ call' = [call EXCEPT ![r].pc = "done", ![r].ret = p.ret]
                /\ cb' = [cb EXCEPT ![r] = [n |-> @.n + 1, status |-> p.ret]]
                /\ UNCHANGED <<cond, hw>>
           ELSE /\ chan' = [chan EXCEPT ![id] = [p.ch EXCEPT !.req = r]]
                /\ call' = [call EXCEPT ![r].pc = "done", ![r].ret = "EINPROGRESS"]
                /\ cond' = TRUE
                /\ hw' = [hw EXCEPT ![id] = ResetHw]
                /\ UNCHANGED cb
  /\ UNCHANGED <<intst, no_dma, sw, irq, desync, dma, dev>>

\* hica_muc_alg_encdec from "acquired:": prepare, then either release the
\* slot and return the error, or publish the request, wake the sweeper and
\* return -EINPROGRESS.
hica_muc_alg_encdec_acquired(r, map_ok) ==
  /\ call[r].pc = "acquired"
  /\ \E id \in {call[r].id} :
     \E p \in {hica_muc_chan_prepare(id, chan[id], reg[id], rctx[r], map_ok)} :
        /\ reg' = [reg EXCEPT ![id] = p.rg]
        /\ rctx' = [rctx EXCEPT ![r] = p.rq]
        /\ IF p.ret # "0"
           THEN /\ chan' = [chan EXCEPT ![id] = [p.ch EXCEPT !.req = "NULL"]]
                /\ call' = [call EXCEPT ![r].pc = "done", ![r].ret = p.ret]
                /\ UNCHANGED <<cond, hw>>
           ELSE /\ chan' = [chan EXCEPT ![id] = [p.ch EXCEPT !.req = r]]
                /\ call' = [call EXCEPT ![r].pc = "done", ![r].ret = "EINPROGRESS"]
                /\ cond' = TRUE
                /\ hw' = [hw EXCEPT ![id] = ResetHw]
  /\ UNCHANGED <<intst, no_dma, cb, sw, irq, desync, dma, dev>>

(* ------------------------------- sweeper ------------------------------ *)
\* hica_muc_process: the loop moves on to the next channel, or the sweep
\* ends and hica_muc_thread waits again.
SweepNext(id) ==
  IF id + 1 < NumChan
  THEN [pc |-> "take", id |-> id + 1, req |-> "NULL", ret |-> "none"]
  ELSE [pc |-> "wait", id |-> 0, req |-> "NULL", ret |-> "none"]

\* hica_muc_thread: wait_for_completion_interruptible_timeout returns (the
\* completion was signalled, or the 5 s timeout passed), the completion is
\* re-initialised and a sweep starts.
hica_muc_thread_wait ==
  /\ sw.pc = "wait"
  /\ dev.task = "running"
  /\ sw' = [pc |-> "take", id |-> 0, req |-> "NULL", ret |-> "none"]
  /\ cond' = FALSE
  /\ UNCHANGED <<chan, reg, hw, intst, no_dma, rctx, call, cb, irq, desync, dma, dev>>

\* hica_muc_process, per channel: skip a slot that is NULL or an error
\* pointer, else exchange it for ERR_PTR(-EBUSY).
hica_muc_process_take ==
  /\ sw.pc = "take"
  /\ LET id == sw.id
         req == chan[id].req
     IN IF IS_ERR_OR_NULL(req)
        THEN /\ sw' = SweepNext(id)
             /\ UNCHANGED chan
        ELSE /\ chan' = [chan EXCEPT ![id].req = "EBUSY"]
             /\ sw' = [sw EXCEPT !.pc = "push", !.req = req]
  /\ UNCHANGED <<reg, hw, intst, no_dma, cond, rctx, call, cb, irq, desync, dma, dev>>

\* hica_muc_process: ret = hica_muc_chan_push(chan, req).
hica_muc_process_push ==
  /\ sw.pc = "push"
  /\ \E id \in {sw.id} :
     \E r \in {hica_muc_chan_push(id, chan[id], reg[id], rctx[sw.req])} :
        /\ chan' = [chan EXCEPT ![id] = r.ch]
        /\ reg' = [reg EXCEPT ![id] = r.rg]
        /\ rctx' = [rctx EXCEPT ![sw.req] = r.rq]
        /\ sw' = [sw EXCEPT !.ret = r.ret,
                            !.pc = IF r.ret \in {"EBUSY", "EINPROGRESS"}
                                   THEN "store" ELSE "unprepare"]
  /\ UNCHANGED <<hw, intst, no_dma, cond, call, cb, irq, desync, dma, dev>>

\* hica_muc_process, task finished or failed: hica_muc_chan_unprepare.
hica_muc_process_unprepare ==
  /\ sw.pc = "unprepare"
  /\ \E id \in {sw.id} :
     \E u \in {hica_muc_chan_unprepare(id, chan[id], reg[id], rctx[sw.req],
                                       sw.ret # "0")} :
        /\ chan' = [chan EXCEPT ![id] = u.ch]
        /\ reg' = [reg EXCEPT ![id] = u.rg]
        /\ rctx' = [rctx EXCEPT ![sw.req] = u.rq]
  /\ sw' = [sw EXCEPT !.pc = "complete"]
  /\ UNCHANGED <<hw, intst, no_dma, cond, call, cb, irq, desync, dma, dev>>

\* The completion step without "req = NULL": the finished request is put
\* back into the slot.
hica_muc_process_complete_keeps ==
  /\ sw.pc = "complete"
  /\ cb' = [cb EXCEPT ![sw.req] = [n |-> @.n + 1, status |-> sw.ret]]
  /\ sw' = [sw EXCEPT !.pc = "store"]
  /\ UNCHANGED <<chan, reg, hw, intst, no_dma, cond, rctx, call, irq, desync, dma, dev>>

\* hica_muc_process: skcipher_request_complete(req, ret); req = NULL.
hica_muc_process_complete ==
  /\ sw.pc = "complete"
  /\ cb' = [cb EXCEPT ![sw.req] = [n |-> @.n + 1, status |-> sw.ret]]
  /\ sw' = [sw EXCEPT !.pc = "store", !.req = "NULL"]
  /\ UNCHANGED <<chan, reg, hw, intst, no_dma, cond, rctx, call, irq, desync, dma, dev>>

\* A store after which the sweeper moves on without emitting.
hica_muc_process_store_noemit ==
  /\ sw.pc = "store"
  /\ chan' = [chan EXCEPT ![sw.id].req = sw.req]
  /\ sw' = SweepNext(sw.id)
  /\ UNCHANGED <<reg, hw, intst, no_dma, cond, rctx, call, cb, irq, desync, dma, dev>>

\* A store after which the sweeper goes back to a channel that was busy
\* and tries it again before it looks at the next one.
hica_muc_process_store_retries ==
  /\ sw.pc = "store"
  /\ chan' = [chan EXCEPT ![sw.id].req = sw.req]
  /\ sw' = IF sw.ret = "EINPROGRESS"
           THEN [sw EXCEPT !.pc = "emit"]
           ELSE IF sw.ret = "EBUSY"
           THEN [sw EXCEPT !.pc = "take", !.req = "NULL", !.ret = "none"]
           ELSE SweepNext(sw.id)
  /\ UNCHANGED <<reg, hw, intst, no_dma, cond, rctx, call, cb, irq, desync, dma, dev>>

\* hica_muc_process: smp_store_mb(chan->req, req).
hica_muc_process_store ==
  /\ sw.pc = "store"
  /\ chan' = [chan EXCEPT ![sw.id].req = sw.req]
  /\ sw' = IF sw.ret = "EINPROGRESS"
           THEN [sw EXCEPT !.pc = "emit"]
           ELSE SweepNext(sw.id)
  /\ UNCHANGED <<reg, hw, intst, no_dma, cond, rctx, call, cb, irq, desync, dma, dev>>

\* hica_muc_process: hica_muc_chan_emit(chan) after an in-progress push.
hica_muc_process_emit ==
  /\ sw.pc = "emit"
  /\ \E id \in {sw.id} :
     \E e \in {hica_muc_chan_emit(id, chan[id], reg[id])} :
        /\ chan' = [chan EXCEPT ![id] = e.ch]
        /\ reg' = [reg EXCEPT ![id] = e.rg]
  /\ sw' = SweepNext(sw.id)
  /\ UNCHANGED <<hw, intst, no_dma, cond, rctx, call, cb, irq, desync, dma, dev>>

(* -------------------------- interrupt handler ------------------------- *)
\* A status that is taken as read, without folding the output bits onto
\* the channel numbers.
ShiftOr_none(val) == val

\* val |= val >> MUC_CHAN_NUM
ShiftOr(val) == val \cup {b - MUC_CHAN_NUM : b \in {x \in val : x >= MUC_CHAN_NUM}}

\* hica_muc_handle, "clear interrupts": the status is read and the bits
\* read are written back to MUC_INT_RAW.
hica_muc_handle_read ==
  /\ irq.pc = "idle"
  /\ intst # {}
  /\ irq' = [pc |-> "clear", val |-> intst]
  /\ intst' = {}
  /\ UNCHANGED <<chan, reg, hw, no_dma, cond, rctx, call, cb, sw, desync, dma, dev>>

\* hica_muc_handle, "feed channel 0 quickly", entered with val equal to
\* MUC_INT_CHAN0_DATA_DISPOSE: [chan0, reg0, rctx, wake] as the block
\* leaves them; wake tells whether complete(&priv->cond) follows.
hica_muc_handle_fed(e, rqs, wake) ==
  [ch |-> e.ch, rg |-> e.rg, rqs |-> rqs, wake |-> wake]

\* The block after its push returned r: emit when the push is in progress,
\* else leave the channel to the sweeper.
hica_muc_handle_pushed(r, rqs, req) ==
  IF r.ret = "EINPROGRESS"
  THEN hica_muc_handle_fed(hica_muc_chan_emit(MUC_CHAN_PKG1, r.ch, r.rg),
                           [rqs EXCEPT ![req] = r.rq], FALSE)
  ELSE hica_muc_handle_fed(r, [rqs EXCEPT ![req] = r.rq], TRUE)

hica_muc_handle_feed(ch, rg, rqs) ==
  IF IS_ERR_OR_NULL(ch.req)
  THEN [ch |-> ch, rg |-> rg, rqs |-> rqs, wake |-> TRUE]
  ELSE The({hica_muc_handle_pushed(r, rqs, ch.req) :
              r \in {hica_muc_chan_push(MUC_CHAN_PKG1, ch, rg, rqs[ch.req])}})

\* hica_muc_handle from "clear dirty bits" to its return.
hica_muc_handle_clear ==
  /\ irq.pc = "clear"
  /\ LET val == ShiftOr(irq.val)
         cleared == [id \in Chans |->
                       IF id \in val
                       THEN [chan[id] EXCEPT !.dirty = FALSE, !.emitted = FALSE]
                       ELSE chan[id]]
     IN IF val # MUC_INT_CHAN0_DATA_DISPOSE
        THEN /\ chan' = cleared
             /\ cond' = TRUE
             /\ UNCHANGED <<reg, rctx>>
        ELSE \E f \in {hica_muc_handle_feed(cleared[MUC_CHAN_PKG1],
                                             reg[MUC_CHAN_PKG1], rctx)} :
                /\ chan' = [cleared EXCEPT ![MUC_CHAN_PKG1] = f.ch]
                /\ reg' = [reg EXCEPT ![MUC_CHAN_PKG1] = f.rg]
                /\ rctx' = f.rqs
                /\ cond' = (cond \/ f.wake)
  /\ irq' = [pc |-> "idle", val |-> {}]
  /\ UNCHANGED <<hw, intst, no_dma, call, cb, sw, desync, dma, dev>>

(* ------------------------------- hardware ----------------------------- *)
\* The block size the engine works with, from the algorithm in CTRL.
HwBlock(alg) == IF alg = "AES" THEN 16 ELSE 8

\* The engine leaves the chaining value in the IV-output registers after
\* each block, in every mode but ECB.
HwIvOut(rg) ==
  IF rg.CTRL.mode # "ECB"
  THEN [rg EXCEPT !.IV_OUT = hica_writel_seq(@, HwBlock(rg.CTRL.alg))]
  ELSE rg

RingAt(list, i) == IF i \in DOMAIN list THEN list[i] ELSE NoBuf
RingAdd(i, n) == IF i >= ListSize THEN i ELSE (i + n) % ListSize

RECURSIVE RingBytes(_, _, _)
\* The bytes of the n descriptors from index i on.
RingBytes(list, i, n) ==
  IF n = 0 THEN 0
  ELSE RingAt(list, i).len + RingBytes(list, RingAdd(i, 1), n - 1)

RECURSIVE HwRead(_, _, _, _)
\* The engine reads n source descriptors from index i on.
HwRead(h, list, i, n) ==
  IF n = 0 THEN h
  ELSE LET d == RingAt(list, i)
           ok == d.where # "none" /\ d.pos = h.inpos
       IN HwRead([h EXCEPT !.fed = @ + d.len,
                           !.inpos = IF ok THEN @ + d.len ELSE @,
                           !.inbad = @ \/ ~ok],
                 list, RingAdd(i, 1), n - 1)

RECURSIVE HwWrite(_, _, _, _)
\* The engine fills n destination descriptors from index i on.
HwWrite(h, list, i, n) ==
  IF n = 0 THEN h
  ELSE LET d == RingAt(list, i)
           ok == d.where # "none" /\ d.pos = h.outpos
       IN HwWrite([h EXCEPT !.drained = @ + d.len,
                            !.outpos = IF ok THEN @ + d.len ELSE @,
                            !.outbad = @ \/ ~ok],
                  list, RingAdd(i, 1), n - 1)

\* The block the engine leaves in the data-output registers: the output
\* bytes of the request offsets whose source bytes were in the data-input
\* registers.
HwBlockOut(data_in) ==
  [i \in DOMAIN data_in |-> IF data_in[i] > 0 THEN -data_in[i] ELSE 0]

\* Channel 0 finishes the block started through MUC_CHAN0_CFG, leaves its
\* output in the data-output registers and raises the data-disposed
\* interrupt.
HwChan0Done ==
  /\ reg[MUC_CHAN_PKG1].BUSY
  /\ reg' = [reg EXCEPT ![MUC_CHAN_PKG1] =
               HwIvOut([@ EXCEPT !.BUSY = FALSE,
                                 !.DATA_OUT = HwBlockOut(reg[MUC_CHAN_PKG1].DATA_IN)])]
  /\ intst' = intst \cup MUC_INT_CHAN0_DATA_DISPOSE
  /\ UNCHANGED <<chan, hw, no_dma, cond, rctx, call, cb, sw, irq, desync, dma, dev>>

\* A ring channel has read all the source descriptors made available
\* through MUC_CHANn_IN_BUF_CNT and raises its input interrupt.
HwSrcDone(id) ==
  /\ reg[id].IN_BUF_CNT > 0
  /\ hw' = [hw EXCEPT ![id] = HwRead(@, chan[id].src, reg[id].SRC_LST_PTR,
                                     reg[id].IN_BUF_CNT)]
  /\ reg' = [reg EXCEPT ![id] =
               HwIvOut([@ EXCEPT !.IN_BUF_CNT = 0,
                                 !.SRC_LST_PTR = RingAdd(@, reg[id].IN_BUF_CNT)])]
  /\ intst' = intst \cup {MUC_INT_CHANn_IN_BUF(id)}
  /\ UNCHANGED <<chan, no_dma, cond, rctx, call, cb, sw, irq, desync, dma, dev>>

\* A ring channel has filled all the destination descriptors made
\* available through MUC_CHANn_OUT_BUF_CNT, for which it must have read
\* enough source, and raises its output interrupt.
HwDstDone(id) ==
  /\ reg[id].OUT_BUF_CNT > 0
  /\ RingBytes(chan[id].dst, reg[id].DST_LST_PTR, reg[id].OUT_BUF_CNT)
       <= hw[id].fed - hw[id].drained
  /\ hw' = [hw EXCEPT ![id] = HwWrite(@, chan[id].dst, reg[id].DST_LST_PTR,
                                      reg[id].OUT_BUF_CNT)]
  /\ reg' = [reg EXCEPT ![id] =
               [@ EXCEPT !.OUT_BUF_CNT = 0, !.OUT_LEFT = 0,
                         !.DST_LST_PTR = RingAdd(@, reg[id].OUT_BUF_CNT)]]
  /\ intst' = intst \cup {MUC_INT_CHANn_OUT_BUF(id)}
  /\ UNCHANGED <<chan, no_dma, cond, rctx, call, cb, sw, irq, desync, dma, dev>>

\* The EOF quirk described in _hica_muc_chan_push_n: all source is read,
\* but the engine keeps the output of the last destination descriptor (the
\* one flagged end-of-list) in MUC_CHANn_OUT_LEFT and leaves it unfilled.
HwDstStuck(id) ==
  /\ reg[id].OUT_BUF_CNT > 0
  /\ reg[id].IN_BUF_CNT = 0
  /\ reg[id].OUT_LEFT = 0
  /\ RingBytes(chan[id].dst, reg[id].DST_LST_PTR, reg[id].OUT_BUF_CNT)
       <= hw[id].fed - hw[id].drained
  /\ "END_OF_LIST" \in RingAt(chan[id].dst,
         RingAdd(reg[id].DST_LST_PTR, reg[id].OUT_BUF_CNT - 1)).flags
  /\ hw' = [hw EXCEPT ![id] = HwWrite(@, chan[id].dst, reg[id].DST_LST_PTR,
                                      reg[id].OUT_BUF_CNT - 1)]
  /\ reg' = [reg EXCEPT ![id] =
               [@ EXCEPT !.OUT_BUF_CNT = 1, !.OUT_LEFT = 1,
                         !.DST_LST_PTR = RingAdd(@, reg[id].OUT_BUF_CNT - 1)]]
  /\ UNCHANGED <<chan, intst, no_dma, cond, rctx, call, cb, sw, irq, desync, dma, dev>>

\* The engine's ring pointer register of one ring comes to read p, which
\* is not the index the driver's staging leads to; ListSize stands for any
\* value outside the ring.
HwDesync(id, ring, p) ==
  /\ desync[id] = {}
  /\ ~IS_ERR_OR_NULL(chan[id].req) \/ chan[id].req = "EBUSY"
  /\ IF ring = "src"
     THEN /\ reg[id].SRC_LST_PTR # p
          /\ reg' = [reg EXCEPT ![id].SRC_LST_PTR = p]
     ELSE /\ reg[id].DST_LST_PTR # p
          /\ reg' = [reg EXCEPT ![id].DST_LST_PTR = p]
  /\ desync' = [desync EXCEPT ![id] = {ring}]
  /\ UNCHANGED <<chan, hw, intst, no_dma, cond, rctx, call, cb, sw, irq, dma, dev>>

\* The engine's pointer register of a ring of an idle channel reads slot 0
\* again: what the list address written again by the next prepare is taken
\* to do to a ring the engine had left.  Whether it happens is the
\* engine's choice.
HwResync(id, ring) ==
  /\ ring \in desync[id]
  /\ chan[id].req = "NULL"
  /\ IF ring = "src"
     THEN /\ reg[id].SRC_LST_PTR >= ListSize
          /\ reg' = [reg EXCEPT ![id].SRC_LST_PTR = 0]
     ELSE /\ reg[id].DST_LST_PTR >= ListSize
          /\ reg' = [reg EXCEPT ![id].DST_LST_PTR = 0]
  /\ UNCHANGED <<chan, hw, intst, no_dma, cond, rctx, call, cb, sw, irq, desync, dma, dev>>

(* ------------------------------- device ------------------------------- *)
\* hica_muc_probe: the channels are tested; on failure nothing is started,
\* on success the channels are set up, the sweeper is started and the
\* algorithms are registered.
hica_muc_probe ==
  /\ dev.pc = "unbound"
  /\ \E t \in {hica_muc_probe_test(dev.int_ok, dev.disable)} :
       /\ dev' = Probed(dev, t.ret)
       /\ IF t.ret = "0"
          THEN /\ chan' = ProbeChans(t.chan_mask)
               /\ no_dma' = t.no_dma
          ELSE UNCHANGED <<chan, no_dma>>
  /\ UNCHANGED <<reg, hw, intst, cond, rctx, call, cb, sw, irq, desync, dma>>

\* hica_muc_remove: crypto_unregister_skcipher for every algorithm.
hica_muc_remove_unregister ==
  /\ dev.pc = "bound"
  /\ dev' = [dev EXCEPT !.pc = "unregistered", !.algs = FALSE]
  /\ UNCHANGED <<chan, reg, hw, intst, no_dma, cond, rctx, call, cb, sw, irq,
                 desync, dma>>

\* hica_muc_remove: kthread_stop(priv->task) asks the thread to stop, wakes
\* it and waits until it has exited.
hica_muc_remove_stop ==
  /\ dev.pc = "unregistered"
  /\ dev' = [dev EXCEPT !.pc = "stopping", !.task = "stopping"]
  /\ UNCHANGED <<chan, reg, hw, intst, no_dma, cond, rctx, call, cb, sw, irq,
                 desync, dma>>

\* hica_muc_thread: back from the wait, kthread_should_stop() holds and the
\* thread leaves its loop.
hica_muc_thread_exit ==
  /\ sw.pc = "wait"
  /\ dev.task = "stopping"
  /\ dev' = [dev EXCEPT !.task = "stopped"]
  /\ UNCHANGED <<chan, reg, hw, intst, no_dma, cond, rctx, call, cb, sw, irq,
                 desync, dma>>

\* A kthread_stop that returns without waiting for the thread.
kthread_stop_nowait(task) == TRUE

\* kthread_stop has returned: the thread has exited.
kthread_stop(task) == task = "stopped"

\* hica_muc_remove, once kthread_stop returned: the clocks are disabled
\* and reset is asserted.
hica_muc_remove_disable ==
  /\ dev.pc = "stopping"
  /\ kthread_stop(dev.task)
  /\ dev' = [dev EXCEPT !.pc = "removed", !.clk = FALSE, !.rst = TRUE]
  /\ UNCHANGED <<chan, reg, hw, intst, no_dma, cond, rctx, call, cb, sw, irq,
                 desync, dma>>

(* ---------------------------- specification --------------------------- *)
\* The driver: callers, the sweeper thread and the interrupt handler.
Driver ==
  \/ \E r \in Reqs : Submit(r)
  \/ \E r \in Reqs : hica_muc_alg_encdec_scan(r)
  \/ \E r \in Reqs, map_ok \in BOOLEAN : hica_muc_alg_encdec_acquired(r, map_ok)
  \/ hica_muc_thread_wait
  \/ hica_muc_process_take
  \/ hica_muc_process_push
  \/ hica_muc_process_unprepare
  \/ hica_muc_process_complete
  \/ hica_muc_process_store
  \/ hica_muc_process_emit
  \/ hica_muc_handle_read
  \/ hica_muc_handle_clear

\* The engine finishing what it was given.
Hardware ==
  \/ HwChan0Done
  \/ \E id \in RingChans : HwSrcDone(id)
  \/ \E id \in RingChans : HwDstDone(id)

Next ==
  \/ Driver
  \/ Hardware
  \/ \E id \in RingChans : HwDstStuck(id)

Spec == Init /\ [][Next]_vars

\* The driver against an engine that finishes every round it is given, with
\* the sweeper, the handler and the engine each taking their steps.
InitLive == InitWith({Chans}, {w \in Workloads : w.r2.cryptlen = 16})

NextLive == Driver \/ Hardware

\* What runs once it has been entered or woken: a call of
\* hica_muc_alg_encdec, the sweeper thread, the interrupt handler.
Callers ==
  \E r \in Reqs :
    \/ hica_muc_alg_encdec_scan(r)
    \/ \E map_ok \in BOOLEAN : hica_muc_alg_encdec_acquired(r, map_ok)

Sweeper ==
  \/ hica_muc_thread_wait
  \/ hica_muc_process_take
  \/ hica_muc_process_push
  \/ hica_muc_process_unprepare
  \/ hica_muc_process_complete
  \/ hica_muc_process_store
  \/ hica_muc_process_emit

Handler == hica_muc_handle_read \/ hica_muc_handle_clear

Fairness ==
  /\ WF_vars(Callers)
  /\ WF_vars(Sweeper)
  /\ WF_vars(Handler)
  /\ WF_vars(Hardware)

SpecLive == InitLive /\ [][NextLive]_vars /\ Fairness

\* The driver with one ring channel whose round never finishes: on
\* StuckChan the engine never fills a destination descriptor and raises no
\* interrupt; at most it reads the source descriptors without telling.
\* The other channels finish every round they are given.
StuckChan == MUC_CHAN_PKGn_MIN

HwSrcLost(id) ==
  /\ reg[id].IN_BUF_CNT > 0
  /\ hw' = [hw EXCEPT ![id] = HwRead(@, chan[id].src, reg[id].SRC_LST_PTR,
                                     reg[id].IN_BUF_CNT)]
  /\ reg' = [reg EXCEPT ![id] =
               HwIvOut([@ EXCEPT !.IN_BUF_CNT = 0,
                                 !.SRC_LST_PTR = RingAdd(@, reg[id].IN_BUF_CNT)])]
  /\ UNCHANGED <<chan, intst, no_dma, cond, rctx, call, cb, sw, irq, desync, dma, dev>>

HardwareOthers ==
  \/ HwChan0Done
  \/ \E id \in RingChans \ {StuckChan} : HwSrcDone(id)
  \/ \E id \in RingChans \ {StuckChan} : HwDstDone(id)

InitStuck == InitWith({Chans}, Workloads)

NextStuck ==
  \/ Driver
  \/ HardwareOthers
  \/ HwSrcLost(StuckChan)

FairnessStuck ==
  /\ WF_vars(Callers)
  /\ WF_vars(Sweeper)
  /\ WF_vars(Handler)
  /\ WF_vars(HardwareOthers)

SpecStuck == InitStuck /\ [][NextStuck]_vars /\ FairnessStuck

\* The driver against an engine whose ring pointers can go wrong.
InitFault ==
  InitWith({Chans \ {NumChan - 1}},
           {w \in Workloads : w.r2.cryptlen = 16 \/ w.r2.tfm.mode = "ECB"})

NextFault ==
  \/ Next
  \/ \E id \in RingChans, ring \in {"src", "dst"}, p \in 0 .. ListSize :
       HwDesync(id, ring, p)
  \/ \E id \in RingChans, ring \in {"src", "dst"} : HwResync(id, ring)

SpecFault == InitFault /\ [][NextFault]_vars

\* hica_muc_probe on its own, for every readback of the interrupt
\* configuration and every disable list; MUC_CHAN_NUM stands for an entry
\* of the list that is no channel.
InitProbe ==
  /\ \E int_ok \in SUBSET Chans, disable \in SUBSET (Chans \cup {MUC_CHAN_NUM}) :
       dev = Unbound(int_ok, disable)
  /\ chan = [id \in Chans |-> InitChan("NULL")]
  /\ no_dma = FALSE
  /\ \E w \in {v \in Workloads : v.r1.cryptlen = 16} :
       rctx = [r \in Reqs |-> NewReq(w[r])]
  /\ reg = [id \in Chans |-> ResetReg]
  /\ hw = [id \in Chans |-> ResetHw]
  /\ intst = {}
  /\ cond = FALSE
  /\ call = [r \in Reqs |-> IdleCall]
  /\ cb = [r \in Reqs |-> [n |-> 0, status |-> "none"]]
  /\ sw = [pc |-> "wait", id |-> 0, req |-> "NULL", ret |-> "none"]
  /\ irq = [pc |-> "idle", val |-> {}]
  /\ desync = NoDesync
  /\ dma = DmaInit

SpecProbe == InitProbe /\ [][hica_muc_probe]_vars

\* The driver while the device is removed.
Remove ==
  \/ hica_muc_remove_unregister
  \/ hica_muc_remove_stop
  \/ hica_muc_thread_exit
  \/ hica_muc_remove_disable

NextRemove == Driver \/ Hardware \/ Remove

SpecRemove == InitLive /\ [][NextRemove]_vars

(* ---------------------------- start-up hold --------------------------- *)
\* hica_muc_probe, "pressure on one channel for self tests": with one
\* usable channel, or with the extra_check parameter set, nothing is held;
\* otherwise every usable channel but the highest-numbered one is held.
hica_muc_probe_hold_all(chan_mask, check) ==
  IF Cardinality(chan_mask) <= 1 \/ check THEN {} ELSE chan_mask

hica_muc_probe_hold(chan_mask, check) ==
  IF Cardinality(chan_mask) <= 1 \/ check
  THEN {}
  ELSE chan_mask \ {CHOOSE top \in chan_mask : \A id \in chan_mask : id <= top}

\* hica_muc_probe up to "register algs": the channels are tested; on
\* failure probe returns; on success the channels are set up, the held
\* ones get ERR_PTR(-EBUSY), the sweeper is started and the registration
\* of the algorithms begins, from where on requests come in.
hica_muc_probe_setup ==
  /\ dev.pc = "unbound"
  /\ \E t \in {hica_muc_probe_test(dev.int_ok, dev.disable)} :
       IF t.ret # "0"
       THEN /\ dev' = Probed(dev, t.ret)
            /\ UNCHANGED <<chan, no_dma>>
       ELSE \E held \in {hica_muc_probe_hold(t.chan_mask, dev.extra_check)} :
              /\ chan' = [id \in Chans |->
                            IF id \in held THEN InitChan("EBUSY")
                            ELSE ProbeChans(t.chan_mask)[id]]
              /\ no_dma' = t.no_dma
              /\ dev' = [dev EXCEPT !.pc = "registering", !.held = held,
                                    !.algs = TRUE, !.task = "running",
                                    !.clk = TRUE, !.rst = FALSE]
  /\ UNCHANGED <<reg, hw, intst, cond, rctx, call, cb, sw, irq, desync, dma>>

\* hica_muc_probe, "register algs" done: either every
\* hica_muc_alg_register succeeded, or one failed, the algorithms are
\* unregistered again and probe goes to err_task (kthread_stop).
hica_muc_probe_register(ok) ==
  /\ dev.pc = "registering"
  /\ dev' = IF ok THEN [dev EXCEPT !.pc = "releasing"]
            ELSE [dev EXCEPT !.pc = "err_task", !.algs = FALSE,
                             !.task = "stopping"]
  /\ UNCHANGED <<chan, reg, hw, intst, no_dma, cond, rctx, call, cb, sw, irq,
                 desync, dma>>

\* hica_muc_probe, "release all hung channels": the held channels get
\* req = NULL one after the other, lowest first, and probe returns 0.
hica_muc_probe_release ==
  /\ dev.pc = "releasing"
  /\ IF dev.held = {}
     THEN /\ dev' = [dev EXCEPT !.pc = "bound", !.ret = "0"]
          /\ UNCHANGED chan
     ELSE \E id \in {CHOOSE low \in dev.held : \A h \in dev.held : low <= h} :
            /\ chan' = [chan EXCEPT ![id].req = "NULL"]
            /\ dev' = [dev EXCEPT !.held = @ \ {id}]
  /\ UNCHANGED <<reg, hw, intst, no_dma, cond, rctx, call, cb, sw, irq, desync, dma>>

\* hica_muc_probe, err_task .. err_rst, once kthread_stop returned: the
\* clocks are disabled, reset is asserted and probe returns the error.
hica_muc_probe_err_task ==
  /\ dev.pc = "err_task"
  /\ kthread_stop(dev.task)
  /\ dev' = [dev EXCEPT !.pc = "failed", !.ret = "ENOMEM", !.clk = FALSE,
                        !.rst = TRUE]
  /\ UNCHANGED <<chan, reg, hw, intst, no_dma, cond, rctx, call, cb, sw, irq,
                 desync, dma>>

\* hica_muc_probe step by step, with the callers, the sweeper, the handler
\* and the engine at work from the registration on: every disable list and
\* both settings of extra_check, on a device whose channels all pass the
\* interrupt test.
InitHold ==
  /\ \E disable \in SUBSET Chans, check \in BOOLEAN :
       dev = [Unbound(Chans, disable) EXCEPT !.extra_check = check]
  /\ chan = [id \in Chans |-> InitChan("NULL")]
  /\ no_dma = FALSE
  /\ \E w \in {v \in Workloads : v.r1.cryptlen = 16} :
       rctx = [r \in Reqs |-> NewReq(w[r])]
  /\ reg = [id \in Chans |-> ResetReg]
  /\ hw = [id \in Chans |-> ResetHw]
  /\ intst = {}
  /\ cond = FALSE
  /\ call = [r \in Reqs |-> IdleCall]
  /\ cb = [r \in Reqs |-> [n |-> 0, status |-> "none"]]
  /\ sw = [pc |-> "wait", id |-> 0, req |-> "NULL", ret |-> "none"]
  /\ irq = [pc |-> "idle", val |-> {}]
  /\ desync = NoDesync
  /\ dma = DmaInit

Probe ==
  \/ hica_muc_probe_setup
  \/ \E ok \in BOOLEAN : hica_muc_probe_register(ok)
  \/ hica_muc_probe_release
  \/ hica_muc_thread_exit
  \/ hica_muc_probe_err_task

NextHold == Driver \/ Hardware \/ Probe

SpecHold == InitHold /\ [][NextHold]_vars

(* ---------------------------- list builder ---------------------------- *)
\* The scatterlists the builder is run on: up to MaxNodes nodes of these
\* lengths.
MaxNodes == 3
NodeLens == {8, 16, 24}
SgLists == UNION {[1 .. n -> NodeLens] : n \in 1 .. MaxNodes}

\* The requests the builder is run on, as _hica_muc_chan_prepare_n leaves
\* them when it succeeds: every scatterlist, in ECB and in CBC, with a
\* cryptlen of half a block, of one block, of one block and a half (the
\* run length is padded) or of three blocks, the list being at least
\* that long.
ListRequests ==
  {p.rq : p \in {q \in {_hica_muc_chan_prepare_n(
                            InitChan("EBUSY"), ResetReg,
                            NewReq([cryptlen |-> len, sg |-> sg,
                                    tfm |-> Tfm(mode)]), TRUE) :
                          sg \in SgLists, mode \in {"ECB", "CBC"},
                          len \in {8, 16, 24, 48}} : q.ret = "0"}}

\* The request and the builder's calls are those of the first request on
\* the first ring channel.
ListChan == MUC_CHAN_PKGn_MIN

\* _hica_muc_chan_push_n, "set buffers", for one list of the request: the
\* list is appended to at the index the engine's ring pointer gives while
\* the cursor has not reached the run length, the count is kept for the
\* emit, and the engine goes through the descriptors it was given.
ListAppend(is_dst) ==
  /\ ~dev.algs
  /\ \E rq \in {rctx["r1"]}, ch \in {chan[ListChan]}, rg \in {reg[ListChan]} :
     \E it \in {IF is_dst THEN rq.dst ELSE rq.src},
        i \in {IF is_dst THEN rg.DST_LST_PTR ELSE rg.SRC_LST_PTR} :
       /\ it.offset < rq.runlen
       /\ \E s \in {hica_muc_list_append(IF is_dst THEN ch.dst ELSE ch.src,
                                         i, it, ListSize, rq, is_dst)} :
            /\ s.err = "0"
            /\ chan' = [chan EXCEPT ![ListChan] =
                 IF is_dst
                 THEN [ch EXCEPT !.dst = s.list, !.dst_emit_n = s.n]
                 ELSE [ch EXCEPT !.src = s.list, !.src_emit_n = s.n]]
            /\ rctx' = [rctx EXCEPT !["r1"] =
                 IF is_dst THEN [rq EXCEPT !.dst = s.iter]
                 ELSE [rq EXCEPT !.src = s.iter]]
            /\ reg' = [reg EXCEPT ![ListChan] =
                 IF is_dst THEN [rg EXCEPT !.DST_LST_PTR = RingAdd(i, s.n)]
                 ELSE [rg EXCEPT !.SRC_LST_PTR = RingAdd(i, s.n)]]
  /\ UNCHANGED <<hw, intst, no_dma, cond, call, cb, sw, irq, desync, dma, dev>>

\* A prepared request on a ring channel, with nothing else going on: no
\* caller, the sweeper waiting.
InitList ==
  /\ chan = [ProbeChans(Chans) EXCEPT ![ListChan].req = "EBUSY"]
  /\ no_dma = FALSE
  /\ dev = [Probed(Unbound(Chans, {}), "0") EXCEPT !.algs = FALSE]
  /\ \E rq \in ListRequests : rctx = [r \in Reqs |-> rq]
  /\ reg = [id \in Chans |-> ResetReg]
  /\ hw = [id \in Chans |-> ResetHw]
  /\ intst = {}
  /\ cond = FALSE
  /\ call = [r \in Reqs |-> IdleCall]
  /\ cb = [r \in Reqs |-> [n |-> 0, status |-> "none"]]
  /\ sw = [pc |-> "wait", id |-> 0, req |-> "NULL", ret |-> "none"]
  /\ irq = [pc |-> "idle", val |-> {}]
  /\ desync = NoDesync
  /\ dma = DmaInit

NextList == \E is_dst \in BOOLEAN : ListAppend(is_dst)

SpecList == InitList /\ [][NextList]_vars

(* -------------------------------- set_key ----------------------------- *)
\* The key lengths the kernel's crypto headers define and the driver's key
\* selectors.
AES_KEYSIZE_128 == 16
AES_KEYSIZE_192 == 24
AES_KEYSIZE_256 == 32
DES_KEY_SIZE == 8
DES3_EDE_KEY_SIZE == 24
MUC_KEY_SIZE == 32
MUC_KEY_AES_128B == 0
MUC_KEY_AES_192B == 1
MUC_KEY_AES_256B == 2
MUC_KEY_DES == 0
MUC_KEY_DES3_EDE_3KEY == 0
MUC_KEY_DES3_EDE_2KEY == 3

\* The table hica_muc_ctrl_key_lookup walks, in its order.
hica_muc_ctrl_key_maps ==
  << [alg |-> "AES", key |-> MUC_KEY_AES_256B, keylen |-> AES_KEYSIZE_256],
     [alg |-> "AES", key |-> MUC_KEY_AES_192B, keylen |-> AES_KEYSIZE_192],
     [alg |-> "AES", key |-> MUC_KEY_AES_128B, keylen |-> AES_KEYSIZE_128],
     [alg |-> "DES", key |-> MUC_KEY_DES, keylen |-> DES_KEY_SIZE],
     [alg |-> "DES3_EDE", key |-> MUC_KEY_DES3_EDE_3KEY,
      keylen |-> DES3_EDE_KEY_SIZE],
     [alg |-> "DES3_EDE", key |-> MUC_KEY_DES3_EDE_2KEY,
      keylen |-> 2 * DES_KEY_SIZE] >>

\* The selector of the first entry with this algorithm and length, 0 when
\* the table has none.
hica_muc_ctrl_key_lookup(alg, keylen) ==
  LET hits == {i \in 1 .. Len(hica_muc_ctrl_key_maps) :
                 /\ hica_muc_ctrl_key_maps[i].alg = alg
                 /\ hica_muc_ctrl_key_maps[i].keylen = keylen}
  IN IF hits = {} THEN 0
     ELSE hica_muc_ctrl_key_maps[CHOOSE i \in hits :
                                   \A j \in hits : i <= j].key

\* aes_check_keylen of the kernel: 0 for the three AES key lengths.
aes_check_keylen(keylen) ==
  IF keylen \in {AES_KEYSIZE_128, AES_KEYSIZE_192, AES_KEYSIZE_256}
  THEN "0" ELSE "EINVAL"

\* One half of a DES key (the four bytes from offset off; key[1] is the
\* first byte): 0 as soon as a byte differs from the half's first byte in
\* more than the parity bit ((a ^ b) >> 1 is a \div 2 # b \div 2), -EINVAL
\* when none does.
des_check_weakkey_half(key, off) ==
  IF \E i \in 1 .. (DES_KEY_SIZE \div 2 - 1) :
       key[off + i + 1] \div 2 # key[off + 1] \div 2
  THEN "0" ELSE "EINVAL"

\* half(key) ?: half(key + 4).
des_check_weakkey(key) ==
  IF des_check_weakkey_half(key, 0) # "0"
  THEN des_check_weakkey_half(key, 0)
  ELSE des_check_weakkey_half(key, DES_KEY_SIZE \div 2)

\* hica_muc_alg_init: the context of a fresh transform of one template,
\* zeroed by the crypto core, with the template's control fields and its
\* ivsize/chunksize (the block size of AES is MUC_BLOCK_SIZE, of DES and
\* 3DES half of that).  key is ctx->key, key_sel is ctx->ctrl.key.
hica_muc_alg_init(alg, mode) ==
  [alg |-> alg, mode |-> mode, keysize |-> 0,
   ivsize |-> IF alg = "AES" THEN MUC_BLOCK_SIZE ELSE MUC_BLOCK_SIZE \div 2,
   chunksize |-> IF alg = "AES" THEN MUC_BLOCK_SIZE
                 ELSE MUC_BLOCK_SIZE \div 2,
   key |-> [i \in 1 .. MUC_KEY_SIZE |-> 0], key_sel |-> 0]

\* The stores of hica_muc_alg_setkey: the selector, the first keylen bytes
\* of ctx->key, and the key size.
hica_muc_alg_setkey_store(ctx, key) ==
  [ctx EXCEPT !.key_sel = hica_muc_ctrl_key_lookup(ctx.alg, Len(key)),
              !.key = [i \in 1 .. MUC_KEY_SIZE |->
                         IF i <= Len(key) THEN key[i] ELSE @[i]],
              !.keysize = Len(key)]

\* The checks of hica_muc_alg_setkey, in its order: 0 or -EINVAL.
hica_muc_alg_setkey_check(ctx, key) ==
  IF Len(key) > MUC_KEY_SIZE THEN "EINVAL"
  ELSE IF ctx.alg = "AES" THEN aes_check_keylen(Len(key))
  ELSE IF ctx.alg = "DES"
  THEN IF Len(key) # DES_KEY_SIZE THEN "EINVAL" ELSE des_check_weakkey(key)
  ELSE IF ctx.alg = "DES3_EDE"
  THEN IF Len(key) # DES3_EDE_KEY_SIZE THEN "EINVAL" ELSE "0"
  ELSE "EINVAL"

\* A set_key that stores what fits before it checks.
hica_muc_alg_setkey_stores_first(ctx, key) ==
  [ret |-> hica_muc_alg_setkey_check(ctx, key),
   ctx |-> IF Len(key) > MUC_KEY_SIZE THEN ctx
           ELSE hica_muc_alg_setkey_store(ctx, key)]

\* hica_muc_alg_setkey(tfm, key, keylen) with keylen = Len(key): what it
\* returns and the context it leaves.
hica_muc_alg_setkey(ctx, key) ==
  [ret |-> hica_muc_alg_setkey_check(ctx, key),
   ctx |-> IF hica_muc_alg_setkey_check(ctx, key) = "0"
           THEN hica_muc_alg_setkey_store(ctx, key)
           ELSE ctx]

\* The keys the callers pass.  Of every length around the supported ones,
\* filled with one byte; and eight-byte keys whose halves end in bytes
\* that differ only in parity, so that a half is uniform for the weak-key
\* check when its first two bytes are 0 or 1.
KeyHalves == {<<a, b, 0, 1>> : a, b \in {0, 1, 2}}
Keys ==
  {[i \in 1 .. n |-> b] :
     n \in {0, DES_KEY_SIZE, AES_KEYSIZE_128, AES_KEYSIZE_192,
            AES_KEYSIZE_256, MUC_KEY_SIZE + 1},
     b \in {1, 2}}
  \cup {h1 \o h2 : h1, h2 \in KeyHalves}

\* The templates the transforms are taken from.
Algs == {"AES", "DES", "DES3_EDE"}

\* A caller sets the key of the transform of r's request; the field
\* last_setkey of the transform keeps the key and the value of the last
\* call.
SetKey(r) ==
  /\ dev.algs
  /\ call[r].pc = "idle"
  /\ \E key \in Keys :
     \E res \in {hica_muc_alg_setkey(rctx[r].tfm, key)} :
       rctx' = [rctx EXCEPT ![r].tfm =
                  [res.ctx EXCEPT !.last_setkey =
                                    [key |-> key, ret |-> res.ret]]]
  /\ UNCHANGED <<chan, reg, hw, intst, no_dma, cond, call, cb, sw, irq,
                 desync, dma, dev>>

\* The transforms after hica_muc_alg_init, one template for both requests,
\* on a probed device.
InitKey ==
  /\ \E t \in {hica_muc_probe_test(Chans, {})} :
       /\ chan = ProbeChans(t.chan_mask)
       /\ no_dma = t.no_dma
       /\ dev = Probed(Unbound(Chans, {}), t.ret)
  /\ \E alg \in Algs, mode \in {"ECB", "CBC"} :
       rctx = [r \in Reqs |->
                 NewReq([cryptlen |-> 16, sg |-> <<16>>,
                         tfm |-> hica_muc_alg_init(alg, mode) @@
                                 [last_setkey |-> [key |-> <<>>,
                                                   ret |-> "none"]]])]
  /\ reg = [id \in Chans |-> ResetReg]
  /\ hw = [id \in Chans |-> ResetHw]
  /\ intst = {}
  /\ cond = FALSE
  /\ call = [r \in Reqs |-> IdleCall]
  /\ cb = [r \in Reqs |-> [n |-> 0, status |-> "none"]]
  /\ sw = [pc |-> "wait", id |-> 0, req |-> "NULL", ret |-> "none"]
  /\ irq = [pc |-> "idle", val |-> {}]
  /\ desync = NoDesync
  /\ dma = DmaInit

\* set_key calls on the transform of the first request.
NextKey == SetKey("r1")

SpecKey == InitKey /\ [][NextKey]_vars

(* --------------------------- DMA controller --------------------------- *)
\* Everything of the cipher driver, which the DMA controller never touches.
mucvars ==
  <<chan, reg, hw, intst, no_dma, cond, rctx, call, cb, sw, irq, desync, dev>>

\* histb_dma_chan_start: the descriptor's registers are written and the
\* channel is enabled; the data starts to flow.
histb_dma_chan_start(ch) ==
  [ch EXCEPT !.EN = TRUE, !.ACTIVE = TRUE]

\* histb_dma_chan_halt: a channel that is not enabled returns 0 at once;
\* otherwise HALT is set and ACTIVE is polled for a second: drained tells
\* whether the engine emptied the channel within that time.
histb_dma_chan_halt(ch, drained) ==
  IF ~ch.EN
  THEN [ch |-> ch, ret |-> "0"]
  ELSE IF ~ch.ACTIVE
       THEN [ch |-> [ch EXCEPT !.HALT = TRUE], ret |-> "0"]
       ELSE IF drained
            THEN [ch |-> [ch EXCEPT !.HALT = TRUE, !.ACTIVE = FALSE],
                  ret |-> "0"]
            ELSE [ch |-> [ch EXCEPT !.HALT = TRUE], ret |-> "ETIMEDOUT"]

\* A client prepares and submits one more descriptor on channel c:
\* histb_dma_prep_dma_memcpy and the cookie's tx_submit, which takes the
\* lock to put the descriptor on vchan.desc_submitted.
DmaSubmit(c) ==
  /\ ~dma.oops
  /\ dma.chans[c].lock = "free"
  /\ dma.chans[c].n < MaxDesc
  /\ dma' = [dma EXCEPT !.chans[c].n = @ + 1,
                        !.chans[c].submitted =
                            Append(@, dma.chans[c].n + 1)]
  /\ UNCHANGED mucvars

\* histb_dma_issue_pending: under the lock the submitted descriptors move
\* to the issued list, and the first of them is started if the list is not
\* empty and chan->desc is NULL.
histb_dma_issue_pending(c) ==
  /\ ~dma.oops
  /\ dma.chans[c].lock = "free"
  /\ \E ch \in {dma.chans[c]} :
     \E issued \in {ch.issued \o ch.submitted} :
       dma' = [dma EXCEPT !.chans[c] =
                 IF issued # <<>> /\ ch.desc = NoDesc
                 THEN histb_dma_chan_start(
                        [ch EXCEPT !.submitted = <<>>,
                                   !.issued = Tail(issued),
                                   !.desc = Head(issued)])
                 ELSE [ch EXCEPT !.submitted = <<>>, !.issued = issued]]
  /\ UNCHANGED mucvars

\* histb_dma_terminate_all: the lock is taken and the channel halted; when
\* the halt times out the function returns its error there and then, the
\* lock still held; otherwise the running descriptor is terminated, both
\* lists are emptied and the lock is released.
histb_dma_terminate_all(c, drained) ==
  /\ ~dma.oops
  /\ dma.chans[c].lock = "free"
  /\ \E h \in {histb_dma_chan_halt(dma.chans[c], drained)} :
       dma' = [dma EXCEPT !.chans[c] =
                 IF h.ret # "0"
                 THEN [h.ch EXCEPT !.lock = "histb_dma_terminate_all",
                                   !.ret = h.ret]
                 ELSE [h.ch EXCEPT
                         !.terminated =
                             IF h.ch.desc # NoDesc
                             THEN @ \cup {h.ch.desc} ELSE @,
                         !.desc = NoDesc,
                         !.submitted = <<>>,
                         !.issued = <<>>,
                         !.lock = "free",
                         !.ret = "0"]]
  /\ UNCHANGED mucvars

\* The engine finishes the transfer of an enabled channel: the channel is
\* disabled and its terminal-count interrupt raised.
DmaHwDone(c) ==
  /\ ~dma.oops
  /\ dma.chans[c].EN /\ dma.chans[c].ACTIVE
  /\ dma' = [dma EXCEPT !.chans[c].EN = FALSE,
                        !.chans[c].ACTIVE = FALSE,
                        !.tc = @ \cup {c}]
  /\ UNCHANGED mucvars

\* The engine fails the transfer of an enabled channel: the channel is
\* disabled and its error interrupt raised.
DmaHwError(c) ==
  /\ ~dma.oops
  /\ dma.chans[c].EN /\ dma.chans[c].ACTIVE
  /\ dma' = [dma EXCEPT !.chans[c].EN = FALSE,
                        !.chans[c].ACTIVE = FALSE,
                        !.err = @ \cup {c}]
  /\ UNCHANGED mucvars

\* histb_dma_handle, up to its loop: with some interrupt asserted, the
\* terminal-count status is read and written to DMAC_INT_TC_CLR, the error
\* status is read and, if any bit is set, the terminal-count value is
\* written to DMAC_INT_ERR_CLR.
histb_dma_handle_read ==
  /\ ~dma.oops
  /\ dma.h.pc = "idle"
  /\ dma.tc \cup dma.err # {}
  /\ \E tc \in {dma.tc} : \E err \in {dma.err} :
       dma' = [dma EXCEPT !.tc = @ \ tc,
                          !.err = IF err # {} THEN @ \ tc ELSE @,
                          !.h = [pc |-> "chans", tc |-> tc, err |-> err,
                                 i |-> 0]]
  /\ UNCHANGED mucvars

\* histb_dma_handle_chan: under the lock the running descriptor is
\* completed and the next issued descriptor, if any, is started.
histb_dma_handle_chan(ch) ==
  IF ch.issued = <<>>
  THEN [ch EXCEPT !.completed = @ \cup {ch.desc}, !.desc = NoDesc]
  ELSE histb_dma_chan_start(
         [ch EXCEPT !.completed = @ \cup {ch.desc},
                    !.desc = Head(ch.issued),
                    !.issued = Tail(ch.issued)])

\* One turn of the loop of histb_dma_handle: an error of channel i is
\* logged, else a terminal count is handled; handling waits for the lock,
\* and a channel without a running descriptor makes the handler
\* dereference NULL.
histb_dma_handle_loop ==
  /\ ~dma.oops
  /\ dma.h.pc = "chans"
  /\ \E i \in {dma.h.i} :
     \E h \in {IF i + 1 < NumDmaChan
               THEN [dma.h EXCEPT !.i = i + 1]
               ELSE [dma.h EXCEPT !.pc = "idle", !.i = 0]} :
       IF i \in dma.h.err
       THEN dma' = [dma EXCEPT !.chans[i].logged = TRUE, !.h = h]
       ELSE IF i \in dma.h.tc
            THEN /\ dma.chans[i].lock = "free"
                 /\ IF dma.chans[i].desc = NoDesc
                    THEN dma' = [dma EXCEPT !.oops = TRUE]
                    ELSE dma' = [dma EXCEPT
                                   !.chans[i] = histb_dma_handle_chan(@),
                                   !.h = h]
            ELSE dma' = [dma EXCEPT !.h = h]
  /\ UNCHANGED mucvars

\* The cipher driver is probed and left alone; the DMA controller's
\* clients, engine and handler run.
InitDma ==
  InitWith({Chans}, {CHOOSE w \in Workloads : TRUE})

DmaClients ==
  \E c \in DmaChans :
    \/ DmaSubmit(c)
    \/ histb_dma_issue_pending(c)
    \/ \E drained \in BOOLEAN : histb_dma_terminate_all(c, drained)

DmaHardware ==
  \E c \in DmaChans : DmaHwDone(c) \/ DmaHwError(c)

DmaHandler ==
  histb_dma_handle_read \/ histb_dma_handle_loop

NextDma ==
  DmaClients \/ DmaHardware \/ DmaHandler

\* The handler, the engine and every client's issue_pending are not held
\* up for ever.
FairnessDma ==
  /\ WF_vars(DmaHandler)
  /\ \A c \in DmaChans : WF_vars(DmaHwDone(c) \/ DmaHwError(c))
  /\ \A c \in DmaChans : WF_vars(histb_dma_issue_pending(c))

SpecDma ==
  InitDma /\ [][NextDma]_vars /\ FairnessDma

(* ------------------------------- claims ------------------------------- *)
\* The requests bound to channel id: the one whose submitter holds the
\* claim, the one in the slot, the one the sweeper took out of the slot.
Bound(id) ==
  {r \in Reqs : call[r].pc = "acquired" /\ call[r].id = id}
  \cup {r \in Reqs : chan[id].req = r}
  \cup {r \in Reqs : sw.id = id /\ sw.req = r}

\* The channels a call of hica_muc_alg_encdec for rq scans.
ScanRange(rq) == FirstChan(rq) .. (NumChan - 1)

\* C1: under any interleaving of submissions, the sweeper and the
\* interrupt handler, no channel is bound to two requests at once: from a
\* submitter's successful compare-and-swap until the request is completed
\* (or its prepare fails), nobody else claims the channel.
C1_OneRequestPerChannel ==
  \A id \in Chans :
    /\ Cardinality(Bound(id)) <= 1
    /\ Bound(id) # {} /\ chan[id].req \notin Reqs => chan[id].req = "EBUSY"

\* A submitter holds channel id while the other one tried it and moved on.
C1_Witness ==
  \E r \in Reqs, q \in Reqs :
    /\ r # q
    /\ call[r].pc = "acquired"
    /\ call[r].id \in call[q].tried
    /\ chan[call[r].id].req = "EBUSY"

\* C2: the completion callback is invoked at most once for a request whose
\* submission returned -EINPROGRESS, and never for a request whose
\* submission returned -EBUSY or another error.
C2_CallbackAtMostOnce ==
  \A r \in Reqs :
    /\ cb[r].n <= 1
    /\ cb[r].n > 0 => call[r].ret = "EINPROGRESS"

\* One request was called back once, the other was refused and was not.
C2_Witness ==
  \E r \in Reqs, q \in Reqs :
    /\ cb[r].n = 1 /\ call[r].ret = "EINPROGRESS"
    /\ call[q].ret \in {"EBUSY", "EIO"} /\ cb[q].n = 0
    /\ sw.pc = "wait"

\* C3: every request accepted with -EINPROGRESS eventually has its
\* completion callback invoked and its channel released, when the sweeper
\* runs fairly and the engine finishes every round and raises its
\* interrupts, wherever the interrupts fall between push and emit.
C3_EventuallyCompleted ==
  \A r \in Reqs :
    (call[r].ret = "EINPROGRESS")
      ~> (cb[r].n = 1 /\ chan[call[r].id].req # r /\ sw.req # r)

\* C4: a ring request is completed with status 0 only if the engine was
\* given source descriptors for every byte of the run length, each range
\* once and in order, and destination descriptors for the whole run length,
\* and drained them; nothing staged is skipped.
C4_CompleteOnlyIfAllSubmitted ==
  (sw.pc = "complete" /\ sw.ret = "0" /\ sw.id \in RingChans) =>
    /\ ~hw[sw.id].inbad
    /\ ~hw[sw.id].outbad
    /\ hw[sw.id].inpos >= rctx[sw.req].runlen
    /\ hw[sw.id].outpos >= rctx[sw.req].runlen
    /\ chan[sw.id].src_emit_n = 0
    /\ chan[sw.id].dst_emit_n = 0

\* The key registers, the IV registers and the IV scratch buffer of
\* channel id hold zeroes.
KeyIvZero(id) ==
  /\ reg[id].KEY = 0
  /\ reg[id].IV_IN = 0
  /\ reg[id].IV_OUT = 0
  /\ chan[id].iv = 0

C6_BusyWithoutTrace ==
  [][\A r \in Reqs :
       (call[r].pc = "scan" /\ call'[r] # call[r]) =>
         /\ (call'[r].ret = "EBUSY")
              <=> (/\ chan[call[r].id].req # "NULL"
                   /\ call[r].tried \cup {call[r].id} = ScanRange(rctx[r]))
         /\ chan[call[r].id].req # "NULL"
              => /\ UNCHANGED <<chan, reg, hw, rctx, cond, cb, sw>>
                 /\ call'[r].pc \in {"scan", "done"}
         /\ call'[r].ret = "EBUSY" => call'[r].pc = "done"]_vars

\* A submission has returned -EBUSY while the channels it tried are owned.
C6_Witness ==
  \E r \in Reqs :
    /\ call[r].pc = "done"
    /\ call[r].ret = "EBUSY"
    /\ \A id \in ScanRange(rctx[r]) : chan[id].req # "NULL"

\* C7: a request with cryptlen below the threshold whose submission finds
\* channel 0 and the ring channels all idle is bound to channel 0.
C7_ShortTakesChannel0 ==
  [][\A r \in Reqs :
       (/\ call[r].pc = "scan"
        /\ call[r].tried = {}
        /\ call'[r] # call[r]
        /\ rctx[r].cryptlen < small_request
        /\ \A id \in Chans : chan[id].req = "NULL")
       => /\ call'[r].pc = "acquired"
          /\ call'[r].id = MUC_CHAN_PKG1
          /\ chan'[MUC_CHAN_PKG1].req = "EBUSY"]_vars

\* A short request holds channel 0, its first try, with the rings idle.
C7_Witness ==
  \E r \in Reqs :
    /\ rctx[r].cryptlen < small_request
    /\ call[r].pc = "acquired"
    /\ call[r].tried = {}
    /\ call[r].id = MUC_CHAN_PKG1
    /\ \A id \in RingChans : chan[id].req = "NULL"

\* C8 as stated: a request with cryptlen at or above the threshold, the
\* threshold itself included, is tried on ring channels only and takes the
\* ring channel it finds idle, unless the device is in no-DMA mode.
C8_AtOrAboveTakesRing ==
  [][\A r \in Reqs :
       (/\ call[r].pc = "scan"
        /\ call'[r] # call[r]
        /\ rctx[r].cryptlen >= small_request
        /\ ~no_dma)
       => /\ call[r].id \in RingChans
          /\ chan[call[r].id].req = "NULL"
               => call'[r].pc = "acquired" /\ call'[r].id = call[r].id]_vars

\* C8 amended: a request with cryptlen strictly above the threshold is
\* tried on ring channels only and takes the ring channel it finds idle,
\* unless the device is in no-DMA mode; a request of exactly the threshold
\* is short and starts at channel 0.
C8_AboveTakesRing ==
  [][\A r \in Reqs :
       (/\ call[r].pc = "scan"
        /\ call'[r] # call[r]
        /\ ~no_dma)
       => /\ rctx[r].cryptlen > small_request
               => /\ call[r].id \in RingChans
                  /\ chan[call[r].id].req = "NULL"
                       => /\ call'[r].pc = "acquired"
                          /\ call'[r].id = call[r].id
                          /\ chan'[call[r].id].req = "EBUSY"
          /\ rctx[r].cryptlen = small_request /\ call[r].tried = {}
               => call[r].id = MUC_CHAN_PKG1]_vars

\* A request above the threshold holds the second ring channel, the first
\* one being owned, and channel 0 is idle.
C8_Witness ==
  \E r \in Reqs :
    /\ rctx[r].cryptlen > small_request
    /\ ~no_dma
    /\ call[r].pc = "acquired"
    /\ call[r].id \in RingChans
    /\ call[r].tried # {}
    /\ chan[MUC_CHAN_PKG1].req = "NULL"

\* C9: a request in a block mode whose cryptlen is not a multiple of the
\* block size is rejected at once with -EINVAL: it claims no channel and
\* returns nothing else.
C9_UnalignedRejected ==
  \A r \in Reqs :
    (rctx[r].tfm.mode \in {"ECB", "CBC"} /\ rctx[r].cryptlen % MUC_BLOCK_SIZE # 0)
      => /\ call[r].pc # "acquired"
         /\ call[r].pc = "done" => call[r].ret = "EINVAL"

\* The sweeper is about to push on a ring channel and the push will read
\* the source ring pointer: the channel is not dirty, the request is not at
\* eof, no source descriptor is outstanding and source data remains.
PushReadsSrcPtr ==
  /\ sw.pc = "push"
  /\ sw.id \in RingChans
  /\ ~chan[sw.id].dirty
  /\ ~rctx[sw.req].eof
  /\ reg[sw.id].IN_BUF_CNT = 0
  /\ rctx[sw.req].src.offset < rctx[sw.req].runlen

SweeperHoldsFault == sw.ret \notin {"none", "0", "EBUSY", "EINPROGRESS"}

\* C11: when push returns a fault for a request, the sweeper unprepares
\* the channel without taking output (req->iv is not rewritten), invokes
\* the completion callback with that error code, the callback's single
\* invocation, and stores NULL in the slot with the dirty flag clear: the
\* channel is Idle and a later request can be bound to it.
C11_FaultReleasesChannel ==
  [][/\ (sw.pc = "push" /\ sw'.pc # "push"
         /\ sw'.ret \notin {"0", "EBUSY", "EINPROGRESS"})
          => /\ sw'.pc = "unprepare"
             /\ ~chan'[sw.id].dirty
             /\ chan'[sw.id].src_emit_n = chan[sw.id].src_emit_n
             /\ chan'[sw.id].dst_emit_n = chan[sw.id].dst_emit_n
     /\ (sw.pc = "unprepare" /\ SweeperHoldsFault /\ sw' # sw)
          => /\ sw'.pc = "complete"
             /\ sw'.ret = sw.ret
             /\ rctx'[sw.req].iv_read = rctx[sw.req].iv_read
     /\ (sw.pc = "complete" /\ SweeperHoldsFault /\ sw' # sw)
          => /\ cb'[sw.req] = [n |-> 1, status |-> sw.ret]
             /\ sw'.pc = "store"
             /\ sw'.req = "NULL"
     /\ (sw.pc = "store" /\ SweeperHoldsFault /\ sw' # sw)
          => /\ chan'[sw.id].req = "NULL"
             /\ ~chan'[sw.id].dirty]_vars

\* A request was completed with -EIO on a ring channel, and a later
\* request bound to the same channel has been driven to the end with
\* status 0.
C11_Witness ==
  \E r \in Reqs :
    /\ cb[r] = [n |-> 1, status |-> "EIO"]
    /\ sw.pc = "complete"
    /\ sw.ret = "0"
    /\ sw.req \in Reqs \ {r}
    /\ sw.id \in RingChans
    /\ call[r].id = sw.id
    /\ desync[sw.id] # {}

\* A step of prepare, push, emit or unprepare on channel id for request r,
\* which is in ECB mode.
EcbStepOn(id, r) ==
  /\ rctx[r].tfm.mode = "ECB"
  /\ \/ call[r].pc = "acquired" /\ call[r].id = id /\ call'[r] # call[r]
     \/ /\ sw.id = id /\ sw.req = r /\ sw' # sw
        /\ sw.pc \in {"push", "unprepare", "emit"}

\* C12: for a request in ECB mode, no step of prepare, push, emit or
\* unprepare, on channel 0 or on a ring channel, writes the IV-input
\* registers, the IV-output registers or the IV scratch buffer, none reads
\* the IV-output registers into req->iv, and no descriptor it writes
\* carries the set-iv flag (nor is channel 0's IV-set control bit on).
C12_EcbNeverTouchesIv ==
  [][\A id \in Chans, r \in Reqs :
       EcbStepOn(id, r) =>
         /\ chan'[id].ivacc = {}
         /\ reg'[id].IV_IN = reg[id].IV_IN
         /\ reg'[id].IV_OUT = reg[id].IV_OUT
         /\ chan'[id].iv = chan[id].iv
         /\ ~rctx'[r].iv_read
         /\ ~reg'[id].CTRL.iv_set
         /\ \A i \in 0 .. (ListSize - 1) :
              /\ chan'[id].src[i] # chan[id].src[i]
                   => "SET_IV" \notin chan'[id].src[i].flags
              /\ chan'[id].dst[i] # chan[id].dst[i]
                   => "SET_IV" \notin chan'[id].dst[i].flags]_vars

\* An ECB request has gone through prepare, push, emit and unprepare on
\* its channel with nothing of the IV written, while another channel, which
\* served a CBC request, had its IV registers or scratch buffer written.
C12_Witness ==
  /\ sw.pc = "complete"
  /\ sw.ret = "0"
  /\ rctx[sw.req].tfm.mode = "ECB"
  /\ chan[sw.id].ivacc = {}
  /\ \E id \in Chans : id # sw.id /\ chan[id].ivacc # {}

\* C13: a channel hica_muc_probe found unusable holds ERR_PTR(-EINVAL) in
\* its slot for good, never NULL and never a request: no submission
\* claims it, the sweeper takes nothing from it, and prepare, push, emit
\* and unprepare are never run on it, so the channel structure and its
\* registers stay as probe left them.
C13_DisabledStaysDisabled ==
  [][\A id \in Chans :
       chan[id].req = "EINVAL" =>
         /\ chan'[id] = chan[id]
         /\ reg'[id] = reg[id]
         /\ hw'[id] = hw[id]
         /\ \A r \in Reqs : ~(call'[r].pc = "acquired" /\ call'[r].id = id)
         /\ sw'.id = id => sw'.pc \in {"take", "wait"}]_vars

\* The last channel is unusable; a submission tried it after the ring
\* before it, found nothing and returned -EBUSY, and the sweeper has just
\* passed over it.
C13_Witness ==
  /\ chan[NumChan - 1].req = "EINVAL"
  /\ \E r \in Reqs :
       /\ call[r].pc = "done"
       /\ call[r].ret = "EBUSY"
       /\ (NumChan - 1) \in call[r].tried
  /\ sw.pc = "wait"
  /\ \E r \in Reqs : cb[r].n = 1

\* The channels that pass hica_muc_probe's test: interrupt bit set in the
\* readback and not named in the disable list.
Usable == {id \in Chans : id \in dev.int_ok /\ id \notin dev.disable}

\* hica_muc_probe has failed: no sweeper thread, no algorithm registered,
\* clocks off.
ProbeFailed(d) ==
  /\ d.pc = "failed"
  /\ d.ret # "0"
  /\ d.task = "none"
  /\ ~d.algs
  /\ ~d.clk

C15_RemoveOrder ==
  /\ dev.task \in {"stopping", "stopped"} => ~dev.algs
  /\ ~dev.clk => /\ dev.pc = "removed"
                 /\ dev.task = "stopped"
                 /\ ~dev.algs
                 /\ dev.rst
  /\ sw.pc # "wait" => dev.clk /\ dev.task \in {"running", "stopping"}

\* The device has been removed, clocks off and reset asserted, with a
\* request still in a channel slot: the sweeper had work when it was
\* stopped.
C15_Witness ==
  /\ dev.pc = "removed"
  /\ ~dev.clk
  /\ dev.rst
  /\ sw.pc = "wait"
  /\ \E id \in Chans : chan[id].req \in Reqs

\* C16 as stated: a failure of prepare (a DMA mapping failure, a
\* scatterlist shorter than cryptlen) reaches the request's completion
\* callback as its status.
C16_PrepareFailureCalledBack ==
  \A r \in Reqs :
    (call[r].pc = "done" /\ call[r].ret \in {"EIO", "EINVAL"})
      ~> (cb[r].n = 1 /\ cb[r].status = call[r].ret)

\* C16 amended: a failure of prepare is the return value of the
\* submission (hica_muc_alg_encdec returns it at once); the slot is set
\* back to NULL, the sweeper is not woken, and the completion callback is
\* not invoked for the request, then or later.
C16_PrepareFailureReturned ==
  [][\A r \in Reqs :
       /\ (call[r].pc = "acquired" /\ call'[r].pc = "done"
           /\ call'[r].ret # "EINPROGRESS")
            => /\ call'[r].ret \in {"EIO", "EINVAL"}
               /\ chan'[call[r].id].req = "NULL"
               /\ ~chan'[call[r].id].dirty
               /\ cb' = cb
               /\ cond' = cond
               /\ sw' = sw
       /\ (call'[r].pc = "done" /\ call'[r].ret # "EINPROGRESS")
            => cb'[r] = [n |-> 0, status |-> "none"]]_vars

\* A submission on a ring channel has returned -EIO from prepare; the
\* callback was not invoked for it, the sweeper has swept and waits, and
\* the channel is idle again.
C16_Witness ==
  \E r \in Reqs :
    /\ call[r].pc = "done"
    /\ call[r].ret = "EIO"
    /\ call[r].id \in RingChans
    /\ cb[r].n = 0
    /\ chan[call[r].id].req = "NULL"
    /\ sw.pc = "wait"
    /\ \E q \in Reqs : cb[q].n = 1

\* C17: on every channel, hica_muc_chan_emit does not go to the
\* start/submission registers again until the interrupt handler has
\* cleared the dirty flag that the push before the last emit set, and
\* nothing but the handler clears it; a push attempted while dirty is set
\* returns -EBUSY and leaves the channel, its registers and the request as
\* they were.
C17_NoEmitUntilDirtyCleared ==
  [][/\ (sw.pc = "emit" /\ sw' # sw /\ chan[sw.id].dirty)
          => ~chan[sw.id].emitted
     /\ (sw.pc = "emit" /\ sw' # sw /\ reg'[sw.id] # reg[sw.id])
          => chan[sw.id].dirty /\ ~chan[sw.id].emitted
     /\ (sw.pc = "push" /\ sw' # sw /\ chan[sw.id].dirty)
          => /\ sw'.ret = "EBUSY"
             /\ UNCHANGED <<chan, reg, hw, rctx>>
     /\ (sw.pc = "push" /\ sw' # sw /\ sw'.ret = "EINPROGRESS")
          => ~chan[sw.id].dirty /\ chan'[sw.id].dirty
     /\ \A id \in Chans :
          (chan[id].dirty /\ ~chan'[id].dirty)
            => irq.pc = "clear" /\ irq'.pc = "idle"]_vars

\* A push on a ring channel, attempted while the round before it was
\* emitted and its dirty flag is still set, has returned -EBUSY.
C17_Witness ==
  /\ sw.pc = "store"
  /\ sw.ret = "EBUSY"
  /\ sw.id \in RingChans
  /\ chan[sw.id].dirty
  /\ chan[sw.id].emitted

\* C18: when the status the handler read has the data-disposed bit of
\* channel 0 as its only bit and channel 0's slot holds a request, the
\* handler itself pushes that request once (the request moves on as
\* hica_muc_chan_push moves it) and, the push being in progress, emits
\* (channel 0 is started) and returns without completing priv->cond.
C18_HandlerFeedsChannel0 ==
  [][(/\ irq.pc = "clear"
      /\ irq'.pc = "idle"
      /\ irq.val = MUC_INT_CHAN0_DATA_DISPOSE
      /\ chan[MUC_CHAN_PKG1].req \in Reqs)
       => \E r \in {hica_muc_chan_push(MUC_CHAN_PKG1,
                        [chan[MUC_CHAN_PKG1] EXCEPT !.dirty = FALSE],
                        reg[MUC_CHAN_PKG1], rctx[chan[MUC_CHAN_PKG1].req])} :
            /\ rctx'[chan[MUC_CHAN_PKG1].req] = r.rq
            /\ r.ret = "EINPROGRESS"
                 => /\ reg'[MUC_CHAN_PKG1].BUSY
                    /\ cond' = cond]_vars

\* The key lengths set_key supports for an algorithm.
SupportedKeyLens(alg) ==
  IF alg = "AES" THEN {16, 24, 32}
  ELSE IF alg = "DES" THEN {8}
  ELSE IF alg = "DES3_EDE" THEN {24}
  ELSE {}

\* The key selector of an algorithm and a supported key length.
SelectorFor(alg, keylen) ==
  IF alg = "AES"
  THEN (IF keylen = 16 THEN MUC_KEY_AES_128B
        ELSE IF keylen = 24 THEN MUC_KEY_AES_192B ELSE MUC_KEY_AES_256B)
  ELSE IF alg = "DES" THEN MUC_KEY_DES
  ELSE MUC_KEY_DES3_EDE_3KEY

\* C19: a set_key call with a key of unsupported length fails; a set_key
\* call that fails leaves the key bytes, the key size and the key selector
\* of the transform as they were and touches no channel, register or
\* engine state; a call that succeeds stores the keylen bytes of the key
\* (and no byte more), the key size keylen and the selector of the
\* algorithm and that length.
C19_SetKeyAllOrNothing ==
  [][\A r \in Reqs :
       rctx'[r].tfm # rctx[r].tfm
         => \E old \in {rctx[r].tfm}, new \in {rctx'[r].tfm} :
            \E key \in {new.last_setkey.key} :
              /\ Len(key) \notin SupportedKeyLens(old.alg)
                   => new.last_setkey.ret # "0"
              /\ new.last_setkey.ret # "0"
                   => /\ new.key = old.key
                      /\ new.keysize = old.keysize
                      /\ new.key_sel = old.key_sel
              /\ new.last_setkey.ret = "0"
                   => /\ new.keysize = Len(key)
                      /\ \A i \in 1 .. MUC_KEY_SIZE :
                           new.key[i] = IF i <= Len(key) THEN key[i]
                                        ELSE old.key[i]
                      /\ new.key_sel = SelectorFor(old.alg, Len(key))
              /\ <<chan, reg, hw, intst>>' = <<chan, reg, hw, intst>>]_vars

\* A DES transform holds the eight bytes of a key that was accepted, and
\* the last set_key on it, with a key of the right length whose second
\* half is uniform, was refused.
C19_Witness ==
  \E tfm \in {rctx["r1"].tfm} :
    /\ tfm.alg = "DES"
    /\ tfm.keysize = DES_KEY_SIZE
    /\ tfm.key[1] = 2
    /\ tfm.last_setkey.ret = "EINVAL"
    /\ Len(tfm.last_setkey.key) = DES_KEY_SIZE
    /\ tfm.last_setkey.key[1] = 1
    /\ tfm.last_setkey.key[2] = 2
    /\ tfm.last_setkey.key[5] = 0
    /\ tfm.last_setkey.key[6] = 1

\* C20: the emit that follows an in-progress push writes the start or
\* count registers of the channel for what that push staged, whatever
\* interrupts of the channel were handled between the push and the emit:
\* the sweeper's step from its emit position changes the channel's
\* registers.
C20_EmitWritesStaged ==
  [][(sw.pc = "emit" /\ sw'.pc # "emit")
       => reg'[sw.id] # reg[sw.id]]_vars

\* The sweeper has an in-progress push on channel id behind it and the
\* emit of that push before it.
EmitPending(id) ==
  /\ sw.id = id
  /\ \/ sw.pc = "emit"
     \/ sw.pc = "store" /\ sw.ret = "EINPROGRESS"

\* The engine holds a submission on channel id: a started block on channel
\* 0, descriptors made available and not yet consumed on a ring.
HwHolds(id) ==
  \/ reg[id].BUSY
  \/ reg[id].IN_BUF_CNT > 0
  \/ reg[id].OUT_BUF_CNT > 0

\* An interrupt of channel id is raised, or read by the handler, and the
\* handler has not yet cleared the dirty flags for it.
IrqPending(id) ==
  \/ id \in ShiftOr(intst)
  \/ irq.pc = "clear" /\ id \in ShiftOr(irq.val)

\* C21: whenever the dirty flag of a channel is set, the emit of the push
\* that set it is still to come, or the engine holds a submission of the
\* channel, or an interrupt of the channel is still to be handled.
C21_DirtyHasOutstanding ==
  \A id \in Chans :
    chan[id].dirty => EmitPending(id) \/ HwHolds(id) \/ IrqPending(id)

\* A ring channel is dirty after its emit, the engine holds source
\* descriptors of it, no interrupt of it is pending and the sweeper is
\* elsewhere.
C21_Witness ==
  \E id \in RingChans :
    /\ chan[id].dirty
    /\ chan[id].emitted
    /\ reg[id].IN_BUF_CNT > 0
    /\ ~IrqPending(id)
    /\ ~EmitPending(id)

\* C22: the dirty flag of a channel is set only by a push of the sweeper
\* on that channel, and such a push sets it exactly when it returns
\* -EINPROGRESS; it is cleared only by the interrupt handler, which clears
\* it for exactly the channels whose input bit or output/disposal bit is
\* in the status it read.  No other step changes it.
C22_DirtySetByPushClearedByHandler ==
  [][\A id \in Chans :
       /\ (~chan[id].dirty /\ chan'[id].dirty)
            => sw.pc = "push" /\ sw.id = id /\ sw'.ret = "EINPROGRESS"
       /\ (sw.pc = "push" /\ sw'.pc # "push" /\ sw.id = id
             /\ sw'.ret = "EINPROGRESS")
            => chan'[id].dirty
       /\ (chan[id].dirty /\ ~chan'[id].dirty)
            => /\ irq.pc = "clear" /\ irq'.pc = "idle"
               /\ id \in irq.val \/ (MUC_CHAN_NUM + id) \in irq.val
       /\ (irq.pc = "clear" /\ irq'.pc = "idle"
             /\ (id \in irq.val \/ (MUC_CHAN_NUM + id) \in irq.val))
            => ~chan'[id].dirty]_vars

\* The handler is about to clear the dirty flag of a ring channel for its
\* output bit alone, while channel 0 is dirty too and has no bit in the
\* status read.
C22_Witness ==
  \E id \in RingChans :
    /\ irq.pc = "clear"
    /\ chan[id].dirty
    /\ (MUC_CHAN_NUM + id) \in irq.val
    /\ id \notin irq.val
    /\ chan[MUC_CHAN_PKG1].dirty
    /\ irq.val \cap {MUC_CHAN_PKG1, MUC_CHAN_NUM} = {}

\* C23: for a channel that holds a request the sweeper swaps the slot to
\* ERR_PTR(-EBUSY) and then pushes, the slot holding the sentinel until
\* the sweeper stores to it.  On -EINPROGRESS it stores the request back
\* and then emits; on -EBUSY it stores the request back and goes on to
\* the next channel without touching a register; on any other value it
\* calls unprepare, then the completion callback with that value, and
\* only then stores NULL.
C23_SweeperOrder ==
  [][sw' # sw =>
       /\ (sw.pc = "take" /\ ~IS_ERR_OR_NULL(chan[sw.id].req))
            => /\ chan'[sw.id].req = "EBUSY"
               /\ sw'.pc = "push"
               /\ sw'.req = chan[sw.id].req
       /\ sw.pc = "push"
            => /\ chan[sw.id].req = "EBUSY"
               /\ chan'[sw.id].req = "EBUSY"
               /\ sw'.pc = IF sw'.ret \in {"EBUSY", "EINPROGRESS"}
                           THEN "store" ELSE "unprepare"
       /\ sw.pc = "unprepare"
            => /\ sw.ret \notin {"EBUSY", "EINPROGRESS"}
               /\ chan'[sw.id].req = "EBUSY"
               /\ cb' = cb
               /\ sw'.pc = "complete"
       /\ sw.pc = "complete"
            => /\ cb'[sw.req] = [n |-> cb[sw.req].n + 1, status |-> sw.ret]
               /\ chan'[sw.id].req = "EBUSY"
               /\ sw'.pc = "store"
               /\ sw'.req = "NULL"
       /\ sw.pc = "store"
            => /\ chan[sw.id].req = "EBUSY"
               /\ chan'[sw.id].req = sw.req
               /\ sw.ret = "EINPROGRESS"
                    => sw.req \in Reqs /\ sw'.pc = "emit" /\ sw'.id = sw.id
               /\ sw.ret = "EBUSY"
                    => sw.req \in Reqs /\ sw' = SweepNext(sw.id) /\ reg' = reg
               /\ sw.ret \notin {"EBUSY", "EINPROGRESS"} => sw.req = "NULL"
       /\ sw.pc = "emit"
            => /\ sw.ret = "EINPROGRESS"
               /\ chan'[sw.id].req = chan[sw.id].req]_vars

\* The sweeper has unprepared a request whose push failed with -EIO and
\* called it back with that value, after another request was finished and
\* called back with 0, and the slot still holds the sentinel that the
\* next step replaces by NULL.
C23_Witness ==
  /\ sw.pc = "store"
  /\ sw.req = "NULL"
  /\ sw.ret = "EIO"
  /\ chan[sw.id].req = "EBUSY"
  /\ \E r \in Reqs : cb[r] = [n |-> 1, status |-> "EIO"]
  /\ \E r \in Reqs : cb[r] = [n |-> 1, status |-> "0"]

\* The execution contexts whose next step reads or writes registers of
\* channel id: a caller about to prepare the channel it acquired, the
\* sweeper about to push, unprepare or emit on it, and the interrupt
\* handler about to enter its push on channel 0.
Accessors(id) ==
  {r \in Reqs : call[r].pc = "acquired" /\ call[r].id = id}
  \cup (IF sw.id = id /\ sw.pc \in {"push", "unprepare", "emit"}
        THEN {"sweeper"} ELSE {})
  \cup (IF /\ id = MUC_CHAN_PKG1
           /\ irq.pc = "clear"
           /\ ShiftOr(irq.val) = MUC_INT_CHAN0_DATA_DISPOSE
           /\ chan[id].req \in Reqs
        THEN {"handler"} ELSE {})

\* C24: never are two execution contexts (callers, the sweeper, the
\* interrupt handler) both about to access the registers of one channel;
\* this includes the sweeper's emit, which comes after the request was
\* stored back into the slot.
C24_OneAccessorPerChannel ==
  \A id \in Chans : Cardinality(Accessors(id)) <= 1

\* The sweeper is about to emit on a channel whose slot holds the request
\* again, while a caller is about to try that channel and the handler is
\* about to clear the dirty flag of that channel.
C24_Witness ==
  /\ sw.pc = "emit"
  /\ chan[sw.id].req \in Reqs
  /\ \E r \in Reqs : call[r].pc = "scan" /\ call[r].id = sw.id
  /\ irq.pc = "clear"
  /\ sw.id \in ShiftOr(irq.val)

\* The index a submission starts its scan at: 0 for a short request or a
\* device without DMA, 1 otherwise.
StartIndex(rq) ==
  IF no_dma \/ rq.cryptlen <= small_request THEN 0 ELSE 1

\* C25 as stated: at the moment a submission acquires a channel, that
\* channel is the lowest-indexed idle one at or after its start index: no
\* channel between the start index and the acquired one is idle.
C25_LowestIdleAtAcquire ==
  [][\A r \in Reqs :
       (call[r].pc = "scan" /\ call'[r].pc = "acquired")
       => /\ call[r].id >= StartIndex(rctx[r])
          /\ \A j \in StartIndex(rctx[r]) .. (call[r].id - 1) :
               chan[j].req # "NULL"]_vars

\* C25 amended: a submission tests the channels in ascending order from
\* its start index and acquires the first one it finds idle when it tests
\* it (a channel it passed may have become idle since): at
\* every test the channels from the start index up to the tested one are
\* those it found not idle, an idle channel is acquired, a channel that is
\* not idle is left as it is and the next one is tested, and after the
\* last channel the call returns -EBUSY.  No channel below the start index
\* is ever tested or acquired.
C25_LowestIdleFromStart ==
  [][\A r \in Reqs :
       (call[r].pc = "scan" /\ call'[r] # call[r])
       => \E id \in {call[r].id} :
            /\ id >= StartIndex(rctx[r])
            /\ call[r].tried = StartIndex(rctx[r]) .. (id - 1)
            /\ IF chan[id].req = "NULL"
               THEN /\ call'[r].pc = "acquired"
                    /\ call'[r].id = id
                    /\ chan'[id].req = "EBUSY"
               ELSE /\ chan' = chan
                    /\ IF id + 1 < NumChan
                       THEN call'[r].pc = "scan" /\ call'[r].id = id + 1
                       ELSE call'[r].pc = "done" /\ call'[r].ret = "EBUSY"]_vars

\* A long request was refused with -EBUSY after it tried the ring channels
\* and only them, while channel 0 is idle.
C25_Witness ==
  \E r \in Reqs :
    /\ ~no_dma
    /\ rctx[r].cryptlen > small_request
    /\ call[r].pc = "done"
    /\ call[r].ret = "EBUSY"
    /\ call[r].tried = RingChans
    /\ chan[MUC_CHAN_PKG1].req = "NULL"

\* C26: when hica_muc_chan_prepare fails on the channel a call has
\* claimed, the call stores NULL to the slot and returns the error at
\* once (no further channel is tried), and the control word and the key
\* registers of the channel are as they were; the request of a call that
\* returned an error is never in a slot nor in the sweeper's hands, and
\* is never called back.
C26_PrepareFailureLeavesChannel ==
  /\ [][\A r \in Reqs :
          (/\ call[r].pc = "acquired"
           /\ call'[r] # call[r]
           /\ call'[r].ret # "EINPROGRESS")
          => \E id \in {call[r].id} :
               /\ call'[r].pc = "done"
               /\ call'[r].id = id
               /\ chan'[id].req = "NULL"
               /\ reg'[id].CTRL = reg[id].CTRL
               /\ reg'[id].KEY = reg[id].KEY
               /\ cond' = cond]_vars
  /\ [](\A r \in Reqs :
          (call[r].pc = "done" /\ call[r].ret # "EINPROGRESS")
          => /\ \A id \in Chans : chan[id].req # r
             /\ sw.req # r
             /\ cb[r].n = 0)

\* A call returned -EIO from prepare on a ring channel: the slot is NULL,
\* the control word and key registers are those of reset, and the sweeper
\* has been through a sweep since.
C26_Witness ==
  \E r \in Reqs :
    /\ call[r].pc = "done"
    /\ call[r].ret = "EIO"
    /\ call[r].id \in RingChans
    /\ chan[call[r].id].req = "NULL"
    /\ reg[call[r].id].CTRL = ResetReg.CTRL
    /\ reg[call[r].id].KEY = 0
    /\ sw.pc = "take"
    /\ sw.id > call[r].id

\* The sweeper's push on ring channel id reaches _hica_muc_chan_push_n
\* (the channel is not dirty) with a request that is not at eof, whose
\* source cursor is at the run length, with no source descriptor and some
\* destination descriptor outstanding in the engine.
PushAtSrcEnd(id) ==
  /\ sw.pc = "push"
  /\ sw'.pc # "push"
  /\ sw.id = id
  /\ ~chan[id].dirty
  /\ ~rctx[sw.req].eof
  /\ rctx[sw.req].src.offset >= rctx[sw.req].runlen
  /\ reg[id].IN_BUF_CNT = 0
  /\ reg[id].OUT_BUF_CNT > 0

\* The push has written the dummy pair: one dummy source descriptor at
\* the source ring's pointer, one dummy destination descriptor after the
\* outstanding ones, one descriptor of each to emit.
DummyPairStaged(id) ==
  /\ chan'[id].src[reg[id].SRC_LST_PTR]
       = DummyBuf(rctx[sw.req], chan[id].src[reg[id].SRC_LST_PTR])
  /\ \E j \in {(reg[id].DST_LST_PTR + reg[id].OUT_BUF_CNT) % ListSize} :
       chan'[id].dst[j] = DummyBuf(rctx[sw.req], chan[id].dst[j])
  /\ chan'[id].src_emit_n = 1
  /\ chan'[id].dst_emit_n = 1

\* C27 as stated: on a ring channel, with the source exhausted, no source
\* descriptor outstanding, destination descriptors outstanding and
\* MUC_CHANn_OUT_LEFT reading zero, push issues the dummy pair and returns
\* -EINPROGRESS.
C27_DummyWhenLeftZero ==
  [][\A id \in RingChans :
       (PushAtSrcEnd(id) /\ reg[id].OUT_LEFT = 0)
       => sw'.ret = "EINPROGRESS" /\ DummyPairStaged(id)]_vars

\* C27 amended: on a ring channel, with both cursors at the run length, no
\* source descriptor outstanding and destination descriptors outstanding,
\* push sets eof; when MUC_CHANn_OUT_LEFT reads nonzero it issues the
\* dummy pair and returns -EINPROGRESS, and when it reads zero it returns
\* -EBUSY and writes no descriptor.
C27_DummyWhenLeftNonzero ==
  [][\A id \in RingChans :
       (PushAtSrcEnd(id) /\ rctx[sw.req].dst.offset >= rctx[sw.req].runlen)
       => /\ rctx'[sw.req].eof
          /\ IF reg[id].OUT_LEFT # 0
             THEN /\ sw'.ret = "EINPROGRESS"
                  /\ DummyPairStaged(id)
                  /\ chan'[id].dirty
             ELSE /\ sw'.ret = "EBUSY"
                  /\ chan'[id] = chan[id]]_vars

\* The sweeper's push has issued the dummy pair on a ring channel whose
\* MUC_CHANn_OUT_LEFT reads nonzero: the request is at eof, one source and
\* one destination descriptor wait for the emit and the source ring holds
\* the dummy descriptor.
C27_Witness ==
  /\ sw.pc = "store"
  /\ sw.ret = "EINPROGRESS"
  /\ sw.id \in RingChans
  /\ rctx[sw.req].eof
  /\ reg[sw.id].OUT_LEFT # 0
  /\ reg[sw.id].OUT_BUF_CNT > 0
  /\ chan[sw.id].src_emit_n = 1
  /\ chan[sw.id].dst_emit_n = 1
  /\ chan[sw.id].src[reg[sw.id].SRC_LST_PTR]
       = DummyBuf(rctx[sw.req], chan[sw.id].src[reg[sw.id].SRC_LST_PTR])

\* C28: a push on a ring channel for a request that is at eof returns
\* -EBUSY or 0 and writes no descriptor, moves no cursor and sets no emit
\* count; the dummy pair is issued only by the push that sets eof; and
\* eof, once set, stays set.  So the dummy pair is issued at most once
\* for a request.
C28_NothingAfterEof ==
  [][/\ \A r \in Reqs : rctx[r].eof => rctx'[r].eof
     /\ (sw.pc = "push" /\ sw'.pc # "push" /\ sw.id \in RingChans)
          => /\ rctx[sw.req].eof
                  => /\ sw'.ret \in {"EBUSY", "0"}
                     /\ chan'[sw.id] = chan[sw.id]
                     /\ rctx'[sw.req] = rctx[sw.req]
             /\ (sw'.ret = "EINPROGRESS" /\ rctx'[sw.req].eof)
                  => ~rctx[sw.req].eof]_vars

\* After the dummy pair was issued and emitted and the interrupt handler
\* cleared the dirty flag, a push for the request, which is at eof, has
\* returned -EBUSY while the engine still holds a destination descriptor.
C28_Witness ==
  /\ sw.pc = "store"
  /\ sw.ret = "EBUSY"
  /\ sw.id \in RingChans
  /\ rctx[sw.req].eof
  /\ ~chan[sw.id].dirty
  /\ reg[sw.id].OUT_BUF_CNT > 0
  /\ \E i \in 0 .. (ListSize - 1) : chan[sw.id].src[i] = DummyBuf(rctx[sw.req], chan[sw.id].src[i])

\* C29: a push on a ring channel that finds descriptors outstanding on
\* the source ring and on the destination ring returns -EBUSY and leaves
\* the descriptor rings, the emit counts and the dirty flag of the channel,
\* the cursors of the request and the registers as they were.
C29_BusyPushChangesNothing ==
  [][\A id \in RingChans :
       (/\ sw.pc = "push"
        /\ sw'.pc # "push"
        /\ sw.id = id
        /\ reg[id].IN_BUF_CNT > 0
        /\ reg[id].OUT_BUF_CNT > 0)
       => /\ sw'.ret = "EBUSY"
          /\ chan'[id].src = chan[id].src
          /\ chan'[id].dst = chan[id].dst
          /\ chan'[id].src_emit_n = chan[id].src_emit_n
          /\ chan'[id].dst_emit_n = chan[id].dst_emit_n
          /\ chan'[id].dirty = chan[id].dirty
          /\ rctx'[sw.req].src = rctx[sw.req].src
          /\ rctx'[sw.req].dst = rctx[sw.req].dst
          /\ reg' = reg]_vars

\* A push on a ring channel that is not dirty has found descriptors
\* outstanding on both rings and returned -EBUSY.
C29_Witness ==
  /\ sw.pc = "store"
  /\ sw.ret = "EBUSY"
  /\ sw.id \in RingChans
  /\ ~chan[sw.id].dirty
  /\ ~rctx[sw.req].eof
  /\ reg[sw.id].IN_BUF_CNT > 0
  /\ reg[sw.id].OUT_BUF_CNT > 0

\* The descriptors one call of the builder wrote: the n slots of list from
\* index i on.
Emitted(list, i, n) == [k \in 1 .. n |-> list[(i + k - 1) % ListSize]]

RECURSIVE SumLen(_)
SumLen(bufs) ==
  IF bufs = <<>> THEN 0 ELSE Head(bufs).len + SumLen(Tail(bufs))

\* How many of the descriptors are flagged end-of-list.
EndOfListCount(bufs) ==
  Cardinality({k \in DOMAIN bufs : "END_OF_LIST" \in bufs[k].flags})

\* A call of the builder for the source (destination) list: the cursor
\* before and after, the descriptors it wrote.
ListCall(is_dst) ==
  [before |-> IF is_dst THEN rctx["r1"].dst ELSE rctx["r1"].src,
   after |-> IF is_dst THEN rctx'["r1"].dst ELSE rctx'["r1"].src,
   bufs |-> IF is_dst
            THEN Emitted(chan'[ListChan].dst, reg[ListChan].DST_LST_PTR,
                         chan'[ListChan].dst_emit_n)
            ELSE Emitted(chan'[ListChan].src, reg[ListChan].SRC_LST_PTR,
                         chan'[ListChan].src_emit_n)]

\* The lengths a call emitted are the bytes its cursor advanced by, the
\* call emitted something, and the cursor is not beyond the run length:
\* over the calls for a list, which go on while the cursor is below the
\* run length, the lengths sum to the run length.
ListCallSums(c) ==
  /\ Len(c.bufs) >= 1
  /\ SumLen(c.bufs) = c.after.offset - c.before.offset
  /\ c.after.offset <= rctx["r1"].runlen

\* C30 as stated: over the calls of the builder for one list of one
\* request the lengths of the descriptors sum to the run length, the
\* cursor never passing it, and each call emits exactly one descriptor
\* flagged end-of-list.
C30_OneEndOfListPerCall ==
  [][\A is_dst \in BOOLEAN :
       ListCall(is_dst).after # ListCall(is_dst).before
       => /\ ListCallSums(ListCall(is_dst))
          /\ EndOfListCount(ListCall(is_dst).bufs) = 1]_vars

\* C30 amended: the lengths sum to the run length as stated; a descriptor
\* is flagged end-of-list exactly when it ends the run length or, in the
\* source list of a mode other than ECB, when it ends the first chunk
\* (the descriptor that sets the IV).  A call emits as many flagged
\* descriptors as it emits of these.
C30_EndOfListAtEnds ==
  [][\A is_dst \in BOOLEAN :
       ListCall(is_dst).after # ListCall(is_dst).before
       => \E c \in {ListCall(is_dst)}, rq \in {rctx["r1"]} :
            /\ ListCallSums(c)
            /\ \A k \in DOMAIN c.bufs :
                 "END_OF_LIST" \in c.bufs[k].flags
                 <=> \/ c.bufs[k].pos + c.bufs[k].len = rq.runlen
                     \/ /\ ~is_dst
                        /\ rq.tfm.mode # "ECB"
                        /\ c.bufs[k].pos + c.bufs[k].len = rq.tfm.chunksize]_vars

\* Both lists of a three-block CBC request in three nodes are complete:
\* both cursors stand at the run length, the source list took more than
\* one call and its last call emitted one descriptor.
C30_Witness ==
  \E rq \in {rctx["r1"]} :
    /\ ~dev.algs
    /\ rq.tfm.mode = "CBC"
    /\ rq.cryptlen = 48
    /\ Len(rq.sg) = 3
    /\ rq.src.offset = rq.runlen
    /\ rq.dst.offset = rq.runlen
    /\ chan[ListChan].src_emit_n = 1
    /\ reg[ListChan].SRC_LST_PTR # 0

\* C31: of the descriptors a call of the builder writes, one that ends
\* exactly at the run length is flagged end-of-list; in a destination list
\* and in a source list in ECB no other is; in a source list of another
\* mode the only other one flagged is the descriptor that sets the IV.
C31_EndOfListFlag ==
  [][\A is_dst \in BOOLEAN :
       ListCall(is_dst).after # ListCall(is_dst).before
       => \E bufs \in {ListCall(is_dst).bufs}, rq \in {rctx["r1"]} :
            \A k \in DOMAIN bufs :
              /\ bufs[k].pos + bufs[k].len = rq.runlen
                   => "END_OF_LIST" \in bufs[k].flags
              /\ (/\ "END_OF_LIST" \in bufs[k].flags
                  /\ bufs[k].pos + bufs[k].len # rq.runlen)
                   => /\ ~is_dst
                      /\ rq.tfm.mode # "ECB"
                      /\ "SET_IV" \in bufs[k].flags]_vars

\* The destination list of a three-block ECB request in three nodes is
\* complete after a second call: the ring holds the descriptor that ends
\* at the run length, flagged end-of-list, and one from the first call
\* that is not flagged.
C31_Witness ==
  \E rq \in {rctx["r1"]}, dst \in {chan[ListChan].dst} :
    /\ ~dev.algs
    /\ rq.tfm.mode = "ECB"
    /\ rq.cryptlen = 48
    /\ Len(rq.sg) = 3
    /\ SgStart(rq.sg, 4) = rq.cryptlen
    /\ rq.dst.offset = rq.runlen
    /\ \E i \in DOMAIN dst : /\ dst[i].pos + dst[i].len = rq.runlen
                             /\ "END_OF_LIST" \in dst[i].flags
    /\ \E i \in DOMAIN dst : /\ dst[i].where = "sg"
                             /\ dst[i].pos + dst[i].len < rq.runlen
                             /\ dst[i].flags = {}

\* The descriptors of a call follow one another from the cursor the call
\* began at: each begins at the request offset the one before it ended at.
Contiguous(c) ==
  \A k \in DOMAIN c.bufs :
    c.bufs[k].pos = IF k = 1 THEN c.before.offset
                    ELSE c.bufs[k - 1].pos + c.bufs[k - 1].len

\* C32: in every call of the builder the descriptors follow one another
\* from the cursor; in the source list of a request in a mode other than
\* ECB the descriptor that ends at the first chunk-size boundary, and no
\* other, carries the set-IV flag, and with it the end-of-list flag and
\* the address of the channel's IV scratch buffer, and no descriptor
\* begins before that boundary and ends after it; a descriptor of a
\* destination list or of an ECB request never carries the set-IV flag.
\* The source list, covering the run length from offset 0, therefore holds
\* exactly one set-IV descriptor.
C32_OneSetIvAtChunkBorder ==
  [][\A is_dst \in BOOLEAN :
       ListCall(is_dst).after # ListCall(is_dst).before
       => \E c \in {ListCall(is_dst)}, rq \in {rctx["r1"]} :
            /\ Contiguous(c)
            /\ \A k \in DOMAIN c.bufs :
                 \E b \in {c.bufs[k]} :
                   /\ "SET_IV" \in b.flags
                        <=> /\ ~is_dst
                            /\ rq.tfm.mode # "ECB"
                            /\ b.pos + b.len = rq.tfm.chunksize
                   /\ "SET_IV" \in b.flags
                        => /\ "END_OF_LIST" \in b.flags
                           /\ b.iv_addr = "iv"
                   /\ (~is_dst /\ rq.tfm.mode # "ECB")
                        => ~(/\ b.pos < rq.tfm.chunksize
                             /\ b.pos + b.len > rq.tfm.chunksize)]_vars

\* A CBC request of three blocks in one 24-byte and further nodes: the
\* source list's first descriptor was cut at the chunk border and sets the
\* IV, the second goes on from there in the same node, and the destination
\* list's first descriptor covers the whole node without the flag.
C32_Witness ==
  /\ rctx["r1"].tfm.mode = "CBC"
  /\ rctx["r1"].cryptlen = 48
  /\ rctx["r1"].sg[1] = 24
  /\ rctx["r1"].src.offset > rctx["r1"].tfm.chunksize
  /\ rctx["r1"].dst.offset > rctx["r1"].tfm.chunksize
  /\ chan[ListChan].src[0].pos = 0
  /\ chan[ListChan].src[0].len = rctx["r1"].tfm.chunksize
  /\ chan[ListChan].src[0].flags = {"SET_IV", "END_OF_LIST"}
  /\ chan[ListChan].src[0].iv_addr = "iv"
  /\ chan[ListChan].src[1].pos = rctx["r1"].tfm.chunksize
  /\ chan[ListChan].src[1].len = 8
  /\ "SET_IV" \notin chan[ListChan].src[1].flags
  /\ chan[ListChan].dst[0].pos = 0
  /\ chan[ListChan].dst[0].len = 24
  /\ chan[ListChan].dst[0].flags = {}

\* C33: in every call of the builder a descriptor that covers request
\* offsets at or above cryptlen points at the pad buffer; a descriptor that
\* points at caller memory ends at or below cryptlen.
C33_PadRegionNotCallerMemory ==
  [][\A is_dst \in BOOLEAN :
       ListCall(is_dst).after # ListCall(is_dst).before
       => \E bufs \in {ListCall(is_dst).bufs}, rq \in {rctx["r1"]} :
            \A k \in DOMAIN bufs :
              /\ bufs[k].pos + bufs[k].len > rq.cryptlen
                   => bufs[k].where = "pad"
              /\ bufs[k].where = "sg"
                   => bufs[k].pos + bufs[k].len <= rq.cryptlen]_vars

\* What the builder returns for the source (destination) list of the
\* first request when run from the cursor it, at the engine's ring pointer.
ListResult(is_dst, it) ==
  IF is_dst
  THEN hica_muc_list_append(chan[ListChan].dst, reg[ListChan].DST_LST_PTR, it,
                            ListSize, rctx["r1"], TRUE)
  ELSE hica_muc_list_append(chan[ListChan].src, reg[ListChan].SRC_LST_PTR, it,
                            ListSize, rctx["r1"], FALSE)

\* The list's cursor, and the cursor at the same request offset that has
\* run off the scatterlist (iter->sg is NULL).
ListCursor(is_dst) == IF is_dst THEN rctx["r1"].dst ELSE rctx["r1"].src
NullCursor(is_dst) ==
  [ListCursor(is_dst) EXCEPT !.sg = Len(rctx["r1"].sg) + 1, !.sg_offset = 0]

\* C34 as stated: from a cursor below the run length the builder returns
\* a fault code when the cursor is invalid, and also when it has filled the
\* ring while the cursor is still below the run length.
C34_FaultAtRingCapacity ==
  \A is_dst \in BOOLEAN :
    ListCursor(is_dst).offset < rctx["r1"].runlen
    => /\ ListResult(is_dst, NullCursor(is_dst)).err # "0"
       /\ \E s \in {ListResult(is_dst, ListCursor(is_dst))} :
            s.iter.offset < rctx["r1"].runlen => s.err # "0"

\* C34 amended: from a cursor below the run length the builder returns
\* the fault code only for a cursor that is invalid at a request offset
\* below cryptlen (at or above cryptlen the pad buffer is used and the
\* cursor is not looked at); from the request's own cursor it returns a
\* count of at least one descriptor, and when it stops with the cursor
\* still below the run length the count is the ring capacity.
C34_CountAtRingCapacity ==
  \A is_dst \in BOOLEAN :
    ListCursor(is_dst).offset < rctx["r1"].runlen
    => /\ ListResult(is_dst, NullCursor(is_dst)).err
            = IF ListCursor(is_dst).offset < rctx["r1"].cryptlen
              THEN "EFAULT" ELSE "0"
       /\ \E s \in {ListResult(is_dst, ListCursor(is_dst))} :
            /\ s.err = "0"
            /\ s.n \in 1 .. ListSize
            /\ s.iter.offset < rctx["r1"].runlen => s.n = ListSize

\* The builder was run on the source list of a three-node request and
\* filled the ring: it returned the ring capacity as the count and left
\* the cursor below the run length, at the third node.
C34_Witness ==
  /\ Len(rctx["r1"].sg) = 3
  /\ chan[ListChan].src_emit_n = ListSize
  /\ rctx["r1"].src.offset > 0
  /\ rctx["r1"].src.offset < rctx["r1"].cryptlen
  /\ rctx["r1"].src.sg = 3
  /\ reg[ListChan].SRC_LST_PTR = 0
  /\ chan[ListChan].src[1].pos + chan[ListChan].src[1].len
       = rctx["r1"].src.offset

\* C38: a push on a ring channel that returns -EINPROGRESS, after which
\* the channel is dirty, has staged at least one descriptor for the emit
\* that follows: the source or the destination emit count is not zero.
C38_InProgressStagesDescriptor ==
  [][\A id \in RingChans :
       (/\ sw.pc = "push"
        /\ sw'.pc # "push"
        /\ sw.id = id
        /\ sw'.ret = "EINPROGRESS")
       => /\ chan'[id].dirty
          /\ chan'[id].src_emit_n + chan'[id].dst_emit_n >= 1]_vars

\* C35: when a request that channel 0 served has been completed with
\* status 0, the destination holds the output byte of every request offset
\* below cryptlen.
C35_SlowChannelOutputComplete ==
  \A r \in Reqs :
    (/\ cb[r].status = "0"
     /\ call[r].pc = "done"
     /\ call[r].id = MUC_CHAN_PKG1)
    => rctx[r].dst_out = 0 .. (rctx[r].cryptlen - 1)

\* C36 as a progress property: with the round on StuckChan never
\* finishing, every request accepted with -EINPROGRESS on another channel
\* eventually has its completion callback invoked and its channel
\* released.
C36_OthersComplete ==
  \A r \in Reqs :
    (call[r].ret = "EINPROGRESS" /\ call[r].id # StuckChan)
      ~> (cb[r].n = 1 /\ chan[call[r].id].req # r /\ sw.req # r)

\* The request on StuckChan is held there, dirty, with destination
\* descriptors the engine never fills, and the request bound to the ring
\* channel after it has been completed with status 0 and its channel
\* released.
C36_Witness ==
  \E r \in Reqs, q \in Reqs :
    /\ chan[StuckChan].req = q
    /\ chan[StuckChan].dirty
    /\ reg[StuckChan].OUT_BUF_CNT > 0
    /\ call[r].id = StuckChan + 1
    /\ call[r].ret = "EINPROGRESS"
    /\ cb[r] = [n |-> 1, status |-> "0"]
    /\ chan[call[r].id].req = "NULL"
    /\ hw[call[r].id].outpos >= rctx[r].runlen

\* The channels hica_muc_probe found usable and those it holds busy while
\* the algorithms are registered.
UsableAtProbe == hica_muc_probe_test(dev.int_ok, dev.disable).chan_mask
HeldAtProbe == hica_muc_probe_hold(UsableAtProbe, dev.extra_check)

\* A caller or the sweeper has taken channel id's slot for itself.
SlotTaken(id) ==
  \/ \E r \in Reqs : call[r].pc = "acquired" /\ call[r].id = id
  \/ sw.id = id /\ sw.pc \in {"push", "unprepare", "complete", "store"}

\* C37: while the algorithms are being registered every held channel's
\* slot is ERR_PTR(-EBUSY) without a caller or the sweeper having taken
\* it, no request was accepted on it, and a usable channel that is not
\* held exists; probe releases a held channel by storing NULL over the
\* ERR_PTR(-EBUSY) it put there; after a successful probe no channel is
\* held any more, a channel that was held is idle unless a request has
\* been bound to it since its release, and every unusable channel holds
\* ERR_PTR(-EINVAL).
C37_StartupHold ==
  /\ [][/\ dev.pc = "releasing"
        /\ dev'.held # dev.held
        => \E id \in dev.held :
             /\ dev'.held = dev.held \ {id}
             /\ chan[id].req = "EBUSY"
             /\ chan'[id].req = "NULL"
             /\ ~chan'[id].dirty]_vars
  /\ [](dev.pc = "registering"
        => /\ \A id \in HeldAtProbe :
                /\ chan[id].req = "EBUSY"
                /\ ~SlotTaken(id)
                /\ \A r \in Reqs :
                     call[r].pc = "done" /\ call[r].ret = "EINPROGRESS"
                     => call[r].id # id
           /\ \E id \in UsableAtProbe \ HeldAtProbe :
                chan[id].req # "EINVAL")
  /\ [](dev.pc = "bound"
        => /\ dev.held = {}
           /\ \A id \in HeldAtProbe :
                \/ chan[id].req \in {"NULL"} \cup Reqs
                \/ chan[id].req = "EBUSY" /\ SlotTaken(id)
           /\ \A id \in Chans \ UsableAtProbe : chan[id].req = "EINVAL")

\* Probe has returned 0 with channel 0 unusable and channel 1, held
\* during the registration, idle now.  The one request submitted so far
\* passed over both, which only the hold explains, and was accepted and
\* completed on channel 2, the usable channel that was not held.
C37_Witness ==
  /\ dev.pc = "bound"
  /\ dev.disable = {0}
  /\ UsableAtProbe = {1, 2}
  /\ HeldAtProbe = {1}
  /\ chan[0].req = "EINVAL"
  /\ chan[1].req = "NULL"
  /\ \E r \in Reqs :
       /\ call[r].id = 2
       /\ call[r].tried = {0, 1}
       /\ cb[r] = [n |-> 1, status |-> "0"]
       /\ \A q \in Reqs \ {r} : call[q].pc = "idle"

\* C39: histb_dma_terminate_all releases the channel's vchan lock on
\* every return path: whenever a call of it returns, on the path where
\* halting the channel times out as on the others, the lock is free.
C39_TerminateAllReleasesLock ==
  [][\A c \in DmaChans :
       (\E drained \in BOOLEAN : histb_dma_terminate_all(c, drained))
         => dma'.chans[c].lock = "free"]_vars

\* The error bits histb_dma_handle read are no longer asserted once it has
\* written its clear registers.
ObservedErrorsCleared ==
  histb_dma_handle_read => dma'.h.err \cap dma'.err = {}

\* A descriptor on the issued list of a channel whose transfer error the
\* handler has reported is eventually taken off the list and started.
IssuedAfterErrorStarted(c) ==
  (dma.chans[c].logged /\ dma.chans[c].issued # <<>>)
    ~> (dma.chans[c].issued = <<>>)

\* C40: a transfer-error interrupt does not wedge a channel: after the
\* handler has run, the error status bits it observed are cleared, and
\* descriptors issued afterwards on that channel are eventually started.
C40_ErrorDoesNotWedge ==
  /\ [][ObservedErrorsCleared]_vars
  /\ \A c \in DmaChans : IssuedAfterErrorStarted(c)

====
